---- MODULE Spec2Model ----
(***************************************************************************)
(* A model of sema.Group (package sema, embedded in                        *)
(* benchmarks/group_WaitGroup_bench_test.go, lines 370-991).               *)
(*                                                                         *)
(* Every action is one atomic access of the code to shared memory (an      *)
(* atomic load, a compare-and-swap, a channel operation) together with the *)
(* local computation that follows it up to the next shared access.  A CAS  *)
(* retry loop whose delta does not depend on the value read is one step:   *)
(* the iteration whose CAS succeeds.                                       *)
(***************************************************************************)
EXTENDS Integers, Sequences, FiniteSets, TLC

\* ------------------------------------------------------------------ bounds
\* width in bits of each half of the counter word (32 in the program); wide
\* enough for the weights of a run, as 32 bits are for those of a program
HalfBits == 5
\* largest size a Group is constructed with
MaxSize == 2
\* largest weight n passed to ReserveN, TryReserveN and FreeN
MaxN == 2
\* number of calls the worker goroutines make in a run
MaxOps == 4
\* number of Wait calls made in a run
MaxWaits == 2
\* number of wait channels a run may allocate
MaxChans == 2
\* Free calls that race in the race scenario
MaxFrees == 2

\* the goroutines: workers reserve and free, the waiter waits
Workers == {"a", "b", "c"}
Waiters == {"w", "v"}
Procs == Workers \cup Waiters
\* the workers that draw their calls from the run's budget
Pool == {"a", "b"}
\* the goroutine that starts the others in a scripted run
Main == "a"

VARIABLES
    size,       \* g.size
    blockChan,  \* g.blockChan: TRUE once the block channel is stored
    counter,    \* g.counter: the packed word
    waitChan,   \* g.waitChan: "nil", "nilChan" or a channel id
    closed,     \* the wait channels that have been closed
    nchans,     \* the wait channels allocated so far
    proc,       \* each goroutine: its position and the locals of its call
    calls,      \* the calls the goroutines may still make: a budget or scripts
    legal,      \* the goroutines that free only what they hold
    hist        \* history kept for the properties, never read by the code

group == <<size, blockChan, counter, waitChan, closed, nchans>>
vars == <<group, proc, calls, legal, hist>>

\* ------------------------------------------------------- the counter word
Half == 2 ^ HalfBits

\* int32(x): the low half read as a signed number
ToSigned(x) == LET m == x % Half IN IF m >= Half \div 2 THEN m - Half ELSE m

\* uint64(newPending)<<32 | uint64(uint32(newActive))
Pack(pending, active) == (pending % Half) * Half + (active % Half)

counterParts(c) == [pending |-> c \div Half, active |-> ToSigned(c % Half)]

\* the word computed without the carry and the borrow
counterUpdateNoCarry(oldCounter, pendingDelta, activeDelta) ==
    LET old == counterParts(oldCounter)
    IN Pack(old.pending + pendingDelta,
            ToSigned(old.active + ToSigned(activeDelta)))

\* the word counterUpdate computes from oldCounter and the two deltas
counterUpdate(oldCounter, pendingDelta, activeDelta) ==
    LET old == counterParts(oldCounter)
        newPending == (old.pending + pendingDelta) % Half
        newActive == ToSigned(old.active + ToSigned(activeDelta))
        adj == IF activeDelta > 0 /\ newActive < old.active THEN 1
               ELSE IF activeDelta < 0 /\ newActive > old.active THEN -1
               ELSE 0
    IN Pack(newPending + adj, newActive)

Pending == counterParts(counter).pending
Active == counterParts(counter).active

\* ------------------------------------------------------ the wait channel
\* the nil interface: g.waitChan before any Store
nilValue == [kind |-> "nil", id |-> 0]
\* var nilChan chan struct{}: stored in g.waitChan once the channel is closed
nilChan == [kind |-> "nilChan", id |-> 0]
\* a channel made by initWaitChanSlow
Chan(i) == [kind |-> "chan", id |-> i]

\* ------------------------------------------------------------ construction
\* the locals of a goroutine that is in no call
\*   pc       position in the code
\*   call     the exported method in progress
\*   n        the n argument
\*   done     the doneChan argument: "nil", "open" or "closed"
\*   size     the local size of ReserveN / TryReserveN
\*   counter  the local counter (the last word loaded or computed)
\*   active   FreeN's local active (notifyWait's active argument)
\*   waitChan the local waitChan
\*   ret      the outcome of the last completed call
\*   held     weight reserved by this goroutine and not yet freed
\*   pendingDelta, activeDelta  the arguments of a direct counterUpdate
Idle(r, h) ==
    [pc |-> "idle", call |-> "none", n |-> 0, done |-> "nil", size |-> 0,
     counter |-> 0, active |-> 0, waitChan |-> nilValue, ret |-> r,
     held |-> h, pendingDelta |-> 0, activeDelta |-> 0]

\* the history of a goroutine's call
\*   zeroSince  the counter was 0 at some instant since the Wait call began,
\*              or since the FreeN or the aborting ReserveN updated the counter
\*   owed       the goroutines whose call in progress emptied the group
\*              while this Wait was blocked on the installed channel
\*   due        such a call has completed
\*   doomed     doneChan was closed while the call was pending without room
\*   enq        the weight the call has added to pending
\*   refused    doneChan was ready at the call's first poll though the group
\*              had room for n
\*   below      the call's decrement left active below zero
\*   used       a reservation had been committed on the group when the call
\*              of SetSize began
\*   raced      the call read a size of 0 while a SetSize of a size above 0
\*              was in progress
\*   waiting    the Wait callers that were blocked on the installed channel
\*              when the call's decrement left active below zero
NoHist ==
    [zeroSince |-> FALSE, owed |-> {}, due |-> FALSE, doomed |-> FALSE,
     enq |-> 0, refused |-> FALSE, below |-> FALSE, used |-> FALSE,
     raced |-> FALSE, waiting |-> {}]

\* NewGroup(s) followed by no other call; s = 0 is also the zero value
InitGroup(s) ==
    /\ size = s
    /\ blockChan = (s > 0)
    /\ counter = 0
    /\ waitChan = nilValue
    /\ closed = {}
    /\ nchans = 0

\* a call of an exported method with its arguments
ReserveNCall(d, k) == [op |-> "ReserveN", done |-> d, n |-> k]
TryReserveNCall(k) == [op |-> "TryReserveN", done |-> "nil", n |-> k]
FreeNCall(k) == [op |-> "FreeN", done |-> "nil", n |-> k]
WaitCall == [op |-> "Wait", done |-> "nil", n |-> 0]

NoScript == [p \in Procs |-> <<>>]

\* the calls of a run drawn freely: work calls shared by the workers of the
\* pool, and wait calls of the waiter
Budget(work, wait) ==
    [work |-> work, wait |-> wait, script |-> NoScript, spawnAt |-> 0,
     loop |-> {}]

\* the calls of a scripted run: each goroutine makes the calls of its script
\* in order, the others starting once Main has completed its first calls and
\* has only spawnAt calls left
Script(script, spawnAt) ==
    [work |-> 0, wait |-> 0, script |-> script, spawnAt |-> spawnAt,
     loop |-> {}]

\* a scripted run in which the goroutines of loop repeat their scripts
LoopScript(script, spawnAt, loop) ==
    [work |-> 0, wait |-> 0, script |-> script, spawnAt |-> spawnAt,
     loop |-> loop]

InitProcs(budget, legalOnes) ==
    /\ proc = [p \in Procs |-> Idle("none", 0)]
    /\ calls = budget
    /\ legal = legalOnes
    /\ hist = [p \in Procs |-> NoHist]

\* the budgets of a run: many calls of the workers around one Wait, or
\* fewer around concurrent Waits
Budgets == {Budget(MaxOps, MaxWaits - 1), Budget(MaxOps - 2, MaxWaits)}

\* a program in which every goroutine frees only what it has reserved
Init ==
    /\ \E s \in 0..MaxSize : InitGroup(s)
    /\ \E b \in Budgets : InitProcs(b, Procs)

\* goroutine q has made a call
Started(q) == proc[q].pc # "idle" \/ proc[q].ret # "none"

\* the goroutines that start before p: those of a kind run the same code, so
\* runs that differ only in which of them goes first are the same run
Before(p) ==
    IF p = "b" THEN {"a"} ELSE IF p = "v" THEN {"w"} ELSE {}

\* the goroutines other than Main have been started
Spawned ==
    \/ Len(calls.script[Main]) < calls.spawnAt
    \/ Len(calls.script[Main]) = calls.spawnAt /\ proc[Main].pc = "idle"

\* goroutine p, being in no call, may make call c next
MayCall(p, c) ==
    /\ proc[p].pc = "idle"
    /\ IF calls.script # NoScript
       THEN /\ calls.script[p] # <<>>
            /\ Head(calls.script[p]) = c
            /\ p = Main \/ Spawned
       ELSE /\ \A q \in Before(p) : Started(q)
            /\ IF c.op = "Wait"
               THEN p \in Waiters /\ calls.wait > 0
               ELSE p \in Pool /\ calls.work > 0
    /\ c.op = "FreeN" /\ p \in legal => c.n <= proc[p].held

\* the calls left once p has made call c
Called(p, c) ==
    calls' = IF calls.script # NoScript
             THEN [calls EXCEPT !.script[p] =
                        IF p \in calls.loop THEN Append(Tail(@), Head(@))
                        ELSE Tail(@)]
             ELSE IF c.op = "Wait"
                  THEN [calls EXCEPT !.wait = @ - 1]
                  ELSE [calls EXCEPT !.work = @ - 1]

\* ----------------------------------------------------------------- history
WaitPcs == {"w_loadctr", "w_cas", "w_recheck", "w_reload", "w_block"}

\* the positions of reserveNSlow at which n is counted in pending
SlowPcs == {"slow_select", "slow_parked", "sw_load", "sw_check", "sw_cas"}

\* the positions of notifyFree and notifyWait
NotifyPcs == {"nf_load", "nf_send", "nf_reload", "nw_load", "nw_cas", "nw_close"}

\* q is blocked in Wait (or about to be) on the channel that is installed
BlockedOnInstalled(q) ==
    /\ proc[q].pc \in {"w_block", "w_recheck"}
    /\ proc[q].waitChan = waitChan

\* the history after a step of p that leaves the counter at new; own is p's
\* own history after the step and fin says that the step completes p's call
HistStep(p, new, own, fin) ==
    hist' = [q \in Procs |->
        IF q = p THEN own
        ELSE LET h == hist[q]
                 emptied == new = 0 /\ counter # 0 /\ BlockedOnInstalled(q)
                 owed1 == IF emptied THEN h.owed \cup {p} ELSE h.owed
             IN [h EXCEPT
                   !.zeroSince = @ \/ (new = 0 /\ proc[q].pc \in WaitPcs \cup NotifyPcs),
                   !.owed = IF fin THEN owed1 \ {p} ELSE owed1,
                   !.due = @ \/ (fin /\ p \in owed1)]]

\* ---------------------------------------------------- returning from a call
\* p's call returns r, having changed what p holds by heldDelta
Return(p, r, heldDelta) ==
    proc' = [proc EXCEPT ![p] = Idle(r, proc[p].held + heldDelta)]

\* the panic of FreeN's misuse check
negativeCounter == "sema.Group: negative group counter"

\* the misuse check taking a counter of zero for misuse as well
EndCallPanicsAtZero(p, l) ==
    proc' = [proc EXCEPT ![p] = Idle(
        IF l.call = "FreeN"
        THEN (IF l.active <= 0 THEN negativeCounter ELSE "ok")
        ELSE "false", l.held)]

\* a misuse check made on the counter as it is now, not on FreeN's active
EndCallChecksCounter(p, l) ==
    proc' = [proc EXCEPT ![p] = Idle(
        IF l.call = "FreeN"
        THEN (IF Active < 0 THEN negativeCounter ELSE "ok")
        ELSE "false", l.held)]

\* the end of FreeN (the misuse check) and of reserveNAbortWait's caller
EndCall(p, l) ==
    proc' = [proc EXCEPT ![p] = Idle(
        IF l.call = "FreeN"
        THEN (IF l.active < 0 THEN negativeCounter ELSE "ok")
        ELSE "false", l.held)]

\* a first test that takes a negative active for calls still active
notifyWaitSkipsBelow(pending, active) == pending > 0 \/ active # 0

\* notifyWait's first test on its two arguments
notifyWaitSkips(pending, active) == pending > 0 \/ active > 0

\* the call of notifyWait(pending, active) by p, whose locals are l: TRUE
\* when p's call ends in this step
EndsAtNotifyWait(l) ==
    notifyWaitSkips(counterParts(l.counter).pending, l.active)

EnterNotifyWait(p, l) ==
    IF EndsAtNotifyWait(l)
    THEN EndCall(p, l)
    ELSE proc' = [proc EXCEPT ![p] = [l EXCEPT !.pc = "nw_load"]]

\* the fast path counting n in both halves
reserveUpdateBoth(c, n) == counterUpdate(c, n, n)

\* the fast path counting n as pending
reserveUpdateAsPending(c, n) == counterUpdate(c, n, 0)

\* ------------------------------------------------------- ReserveN, Reserve
\* the words the callers of counterUpdate ask for, n being the weight
\* ReserveN and TryReserveN with size 0, tryReserve with room: (0, n)
reserveUpdate(c, reserveN) == counterUpdate(c, 0, reserveN)
\* an enqueue that counts n nowhere
pendingUpdateNone(c, reserveN) == counterUpdate(c, 0, 0)
\* an enqueue that counts n as active
pendingUpdateAsActive(c, reserveN) == counterUpdate(c, 0, reserveN)
\* tryReserve without room, tryCall false: (reserveN, 0)
pendingUpdate(c, reserveN) == counterUpdate(c, reserveN, 0)
\* a commit that adds n to active without taking it out of pending
commitUpdateKeepsPending(c, reserveN) == counterUpdate(c, 0, reserveN)
\* a commit that takes n out of pending without adding it to active
commitUpdateDropsActive(c, reserveN) == counterUpdate(c, -reserveN, 0)
\* reserveNSuccessWait: (-reserveN, reserveN)
commitUpdate(c, reserveN) == counterUpdate(c, -reserveN, reserveN)
\* an abort that takes n out of active as well
abortUpdateTakesActive(c, reserveN) == counterUpdate(c, -reserveN, -reserveN)
\* an abort that leaves n in pending
abortUpdateKeepsPending(c, reserveN) == counterUpdate(c, 0, 0)
\* reserveNAbortWait: (-reserveN, 0)
abortUpdate(c, reserveN) == counterUpdate(c, -reserveN, 0)
\* FreeN: (0, -n)
freeUpdate(c, freeN) == counterUpdate(c, 0, -freeN)

\* the room left after n, counted one short
diffNOneShort(c, sz, reserveN) == sz - counterParts(c).active - reserveN - 1

\* reserveNSuccessWait's diffN
diffN(c, sz, reserveN) == sz - counterParts(c).active - reserveN

\* the test without the comparison with the size
hasRoomNoSizeTest(c, sz, reserveN) == counterParts(c).pending = 0

\* the test without the look at the waiters
hasRoomNoPendingTest(c, sz, reserveN) ==
    counterParts(c).active + reserveN <= sz

\* tryReserve's test: the group has room and doesn't have any waiters
hasRoom(c, sz, reserveN) ==
    counterParts(c).pending = 0 /\ counterParts(c).active + reserveN <= sz

\* the panics of ReserveN, TryReserveN and FreeN on their n
invalidReserveN == "sema.Group: invalid group reserve N value"

invalidFreeN == "sema.Group: invalid group free N value"

\* a test that lets a weight of 0 through
invalidNNegative(n) == n < 0

\* the first test of ReserveN, TryReserveN and FreeN: n <= 0
invalidN(n) == n <= 0

\* a call of ReserveN(doneChan, n) begins (Reserve is ReserveN(nil, 1)), and
\* panics if n is 0 or negative
CallReserveN(p, d, k) ==
    /\ MayCall(p, ReserveNCall(d, k))
    /\ Called(p, ReserveNCall(d, k))
    /\ IF invalidN(k)
       THEN Return(p, invalidReserveN, 0)
       ELSE proc' = [proc EXCEPT ![p] = [@ EXCEPT !.pc = "rn_start",
                    !.call = "ReserveN", !.n = k, !.done = d, !.ret = "none"]]
    /\ HistStep(p, counter, NoHist, invalidN(k))
    /\ UNCHANGED <<group, legal>>

\* a poll that never finds doneChan ready
pollDoneNever(d) == FALSE

\* the select on doneChan with a default case: TRUE when it returns false
pollDone(d) == d = "closed"

\* a test that finds no weight above the size
tooBigNever(reserveN, sz) == FALSE

\* a test that finds the weight of the whole size too big
tooBigOrEqual(reserveN, sz) == reserveN >= sz

\* ReserveN's test of n against the size: n > int(size)
tooBig(reserveN, sz) == reserveN > sz

\* ReserveN up to its branch on size: the doneChan poll and g.size.Load()
ReserveN(p) ==
    /\ proc[p].pc = "rn_start"
    /\ LET l == [proc[p] EXCEPT !.size = size]
           failsAtOnce == size # 0 /\ tooBig(l.n, size) /\ l.done = "nil"
       IN /\ IF pollDone(l.done) \/ failsAtOnce
             THEN proc' = [proc EXCEPT ![p] = Idle("false", l.held)]
             ELSE proc' = [proc EXCEPT ![p] = [l EXCEPT !.pc =
                       IF size = 0 THEN "rn_unl"
                       ELSE IF tooBig(l.n, size) THEN "rn_big"
                       ELSE "rn_try"]]
          /\ HistStep(p, counter,
                      [hist[p] EXCEPT
                          !.refused =
                             /\ pollDone(proc[p].done)
                             /\ size = 0 \/ hasRoom(counter, size, proc[p].n),
                          !.raced =
                             /\ ~pollDone(proc[p].done)
                             /\ size = 0
                             /\ \E q \in Procs : /\ proc[q].call = "SetSize"
                                                 /\ proc[q].n > 0],
                      pollDone(l.done) \/ failsAtOnce)
    /\ UNCHANGED <<group, calls, legal>>

\* size == 0: the loop around counterUpdate(g.counter.Load(), 0, n)
ReserveUnlimited(p) ==
    /\ proc[p].pc \in {"rn_unl", "tr_unl"}
    /\ LET new == reserveUpdate(counter, proc[p].n)
       IN /\ counter' = new
          /\ Return(p, "true", proc[p].n)
          /\ HistStep(p, new, hist[p], TRUE)
    /\ UNCHANGED <<size, blockChan, waitChan, closed, nchans, calls, legal>>

\* n > size with a doneChan: <-doneChan, then return false
ReserveTooBig(p) ==
    /\ proc[p].pc = "rn_big"
    /\ proc[p].done = "closed"
    /\ Return(p, "false", 0)
    /\ HistStep(p, counter, hist[p], TRUE)
    /\ UNCHANGED <<group, calls, legal>>

\* tryReserve: the iteration whose CAS succeeds (tryCall = FALSE), or the
\* load after which a TryReserveN gives up (tryCall = TRUE)
tryReserve(p) ==
    /\ proc[p].pc \in {"rn_try", "tr_try"}
    /\ LET l == proc[p]
           tryCall == l.pc = "tr_try"
       IN IF hasRoom(counter, l.size, l.n)
          THEN /\ counter' = reserveUpdate(counter, l.n)
               /\ Return(p, "true", l.n)
               /\ HistStep(p, counter', hist[p], TRUE)
          ELSE IF ~tryCall
          THEN /\ counter' = pendingUpdate(counter, l.n)
               /\ proc' = [proc EXCEPT ![p] = [l EXCEPT !.pc = "slow_select"]]
               /\ HistStep(p, counter', [hist[p] EXCEPT !.enq = l.n], FALSE)
          ELSE /\ counter' = counter
               /\ Return(p, "false", 0)
               /\ HistStep(p, counter, hist[p], TRUE)
    /\ UNCHANGED <<size, blockChan, waitChan, closed, nchans, calls, legal>>

\* reserveNSlow: g.blockChan.Load() and the select; nothing sends on the
\* block channel before a receiver is parked, so only doneChan can be ready
reserveNSlow(p) ==
    /\ proc[p].pc = "slow_select"
    /\ IF ~blockChan
       THEN Return(p, "sema.Group: concurrent Reserve calls while initializing group", 0)
       ELSE proc' = [proc EXCEPT ![p].pc =
                IF proc[p].done = "closed" THEN "ab_sub" ELSE "slow_parked"]
    /\ HistStep(p, counter, hist[p], ~blockChan)
    /\ UNCHANGED <<group, calls, legal>>

\* the doneChan of p's call becomes receive-ready; a goroutine parked in
\* reserveNSlow's select is woken on that case
CloseDone(p) ==
    /\ proc[p].done = "open"
    /\ proc' = [proc EXCEPT ![p].done = "closed",
                            ![p].pc = IF @ = "slow_parked" THEN "ab_sub" ELSE @]
    /\ HistStep(p, counter,
                [hist[p] EXCEPT !.doomed =
                    proc[p].pc \in SlowPcs /\ Active + proc[p].n > size],
                FALSE)
    /\ UNCHANGED <<group, calls, legal>>

\* reserveNSuccessWait: g.counter.Load() and the tests on it
reserveNSuccessWaitLoad(p) ==
    /\ proc[p].pc = "sw_load"
    /\ LET l == proc[p]
           c == counterParts(counter)
           d == diffN(counter, l.size, l.n)
       IN proc' = [proc EXCEPT ![p] = [l EXCEPT
                !.counter = counter,
                !.pc = IF d >= 0 THEN "sw_check"
                       ELSE IF c.pending = l.n THEN "slow_select"
                       ELSE IF c.pending + c.active > l.size THEN "slow_select"
                       ELSE IF c.pending - l.n <= 0 THEN "sw_load"
                       ELSE "sw_handoff"]]
    /\ HistStep(p, counter, hist[p], FALSE)
    /\ UNCHANGED <<group, calls, legal>>

\* reserveNSuccessWait: only move forward if the doneChan wasn't closed
reserveNSuccessWaitPoll(p) ==
    /\ proc[p].pc = "sw_check"
    /\ proc' = [proc EXCEPT ![p].pc =
            IF proc[p].done = "closed" THEN "ab_sub" ELSE "sw_cas"]
    /\ HistStep(p, counter, hist[p], FALSE)
    /\ UNCHANGED <<group, calls, legal>>

\* reserveNSuccessWait: counterUpdate(counter, -reserveN, reserveN)
reserveNSuccessWaitCas(p) ==
    /\ proc[p].pc = "sw_cas"
    /\ LET l == proc[p]
       IN IF counter = l.counter
          THEN /\ counter' = commitUpdate(l.counter, l.n)
               /\ Return(p, "true", l.n)
               /\ HistStep(p, counter', hist[p], TRUE)
          ELSE /\ counter' = counter
               /\ proc' = [proc EXCEPT ![p].pc = "sw_load"]
               /\ HistStep(p, counter, hist[p], FALSE)
    /\ UNCHANGED <<size, blockChan, waitChan, closed, nchans, calls, legal>>

\* reserveNAbortWait: the loop around counterUpdate(counter, -reserveN, 0)
reserveNAbortWait(p) ==
    /\ proc[p].pc = "ab_sub"
    /\ counter' = abortUpdate(counter, proc[p].n)
    /\ proc' = [proc EXCEPT ![p].pc = "nf_load"]
    /\ HistStep(p, counter', [hist[p] EXCEPT !.zeroSince = counter' = 0], FALSE)
    /\ UNCHANGED <<size, blockChan, waitChan, closed, nchans, calls, legal>>

\* -------------------------------------------------------------- TryReserveN
\* TryReserveN up to its branch on size: the test of n and g.size.Load()
CallTryReserveN(p, k) ==
    /\ MayCall(p, TryReserveNCall(k))
    /\ Called(p, TryReserveNCall(k))
    /\ LET l == [proc[p] EXCEPT !.call = "TryReserveN", !.n = k,
                                !.size = size, !.ret = "none"]
       IN IF invalidN(k)
          THEN Return(p, invalidReserveN, 0)
          ELSE IF size # 0 /\ k > size
          THEN proc' = [proc EXCEPT ![p] = Idle("false", l.held)]
          ELSE proc' = [proc EXCEPT ![p] = [l EXCEPT !.pc =
                    IF size = 0 THEN "tr_unl" ELSE "tr_try"]]
    /\ HistStep(p, counter, NoHist, invalidN(k) \/ (size # 0 /\ k > size))
    /\ UNCHANGED <<group, legal>>

\* ------------------------------------------------------------- FreeN, Free
\* a block channel on which no receiver is ever found waiting
ParkedNever(r) == FALSE

\* a parked receiver of the block channel: a goroutine in reserveNSlow's
\* select that no doneChan has woken
Parked(r) == proc[r].pc = "slow_parked"

\* FreeN: the test of n, g.blockChan.Load(), the loop around
\* counterUpdate(counter, 0, -n), and, with no block channel, the test that
\* opens notifyWait(0, active)
CallFreeN(p, k) ==
    /\ MayCall(p, FreeNCall(k))
    /\ Called(p, FreeNCall(k))
    /\ LET new == freeUpdate(counter, k)
           l == [proc[p] EXCEPT !.call = "FreeN", !.n = k,
                                !.ret = "none", !.held = @ - k,
                                !.active = counterParts(new).active]
       IN IF invalidN(k)
          THEN /\ counter' = counter
               /\ Return(p, invalidFreeN, 0)
               /\ HistStep(p, counter, NoHist, TRUE)
          ELSE /\ counter' = new
               /\ IF blockChan
                  THEN proc' = [proc EXCEPT ![p] = [l EXCEPT !.pc = "nf_load"]]
                  ELSE EnterNotifyWait(p, l)
               /\ HistStep(p, new,
                           [NoHist EXCEPT
                               !.zeroSince = new = 0,
                               !.below = l.active < 0,
                               !.waiting =
                                  IF l.active < 0
                                  THEN {q \in Waiters : /\ proc[q].pc = "w_block"
                                                        /\ BlockedOnInstalled(q)}
                                  ELSE {}],
                           ~blockChan /\ EndsAtNotifyWait(l))
    /\ UNCHANGED <<size, blockChan, waitChan, closed, nchans, legal>>

\* FreeN taking active, like pending, from the counter notifyFree returns
AfterNotifyFreeTakesBoth(l, c) ==
    [l EXCEPT !.counter = c, !.active = counterParts(c).active]

\* what the caller of notifyFree makes of the counter it returns: FreeN
\* keeps its own active, reserveNAbortWait takes both halves
AfterNotifyFree(l, c) ==
    [l EXCEPT !.counter = c,
              !.active = IF l.call = "FreeN" THEN @ ELSE counterParts(c).active]

\* notifyFree: g.counter.Load() before the loop and after a default case
notifyFreeLoad(p) ==
    /\ proc[p].pc = "nf_load"
    /\ IF counterParts(counter).pending > 0
       THEN /\ proc' = [proc EXCEPT ![p].pc = "nf_send", ![p].counter = counter]
            /\ HistStep(p, counter, hist[p], FALSE)
       ELSE /\ EnterNotifyWait(p, AfterNotifyFree(proc[p], counter))
            /\ HistStep(p, counter, hist[p],
                        EndsAtNotifyWait(AfterNotifyFree(proc[p], counter)))
    /\ UNCHANGED <<group, calls, legal>>

\* notifyFree: the select; the send completes with a parked receiver, which
\* enters reserveNSuccessWait, and otherwise the default case runs
notifyFreeSelect(p) ==
    /\ proc[p].pc = "nf_send"
    /\ IF \E r \in Procs : Parked(r)
       THEN \E r \in Procs :
               /\ Parked(r)
               /\ proc' = [proc EXCEPT ![p].pc = "nf_reload", ![r].pc = "sw_load"]
       ELSE proc' = [proc EXCEPT ![p].pc = "nf_load"]
    /\ HistStep(p, counter, hist[p], FALSE)
    /\ UNCHANGED <<group, calls, legal>>

\* a notifyFree that goes round its loop again after a send
notifyFreeReloadLoops(p) ==
    /\ proc[p].pc = "nf_reload"
    /\ proc' = [proc EXCEPT ![p].pc = "nf_load"]
    /\ HistStep(p, counter, hist[p], FALSE)
    /\ UNCHANGED <<group, calls, legal>>

\* notifyFree: g.counter.Load() after the send, and the return
notifyFreeReload(p) ==
    /\ proc[p].pc = "nf_reload"
    /\ EnterNotifyWait(p, AfterNotifyFree(proc[p], counter))
    /\ HistStep(p, counter, hist[p],
                EndsAtNotifyWait(AfterNotifyFree(proc[p], counter)))
    /\ UNCHANGED <<group, calls, legal>>

\* notifyWait: g.waitChan.Load()
notifyWaitLoad(p) ==
    /\ proc[p].pc = "nw_load"
    /\ IF waitChan = nilValue \/ waitChan = nilChan
       THEN EndCall(p, proc[p])
       ELSE proc' = [proc EXCEPT ![p].pc = "nw_cas", ![p].waitChan = waitChan]
    /\ HistStep(p, counter, hist[p], waitChan = nilValue \/ waitChan = nilChan)
    /\ UNCHANGED <<group, calls, legal>>

\* a swap that does not compare: it stores nilChan whatever is installed
notifyWaitCasBlind(p) ==
    /\ proc[p].pc = "nw_cas"
    /\ waitChan' = nilChan
    /\ proc' = [proc EXCEPT ![p].pc = "nw_close"]
    /\ HistStep(p, counter, hist[p], FALSE)
    /\ UNCHANGED <<size, blockChan, counter, closed, nchans, calls, legal>>

\* notifyWait: g.waitChan.CompareAndSwap(waitChan, nilChan)
notifyWaitCas(p) ==
    /\ proc[p].pc = "nw_cas"
    /\ IF waitChan = proc[p].waitChan
       THEN /\ waitChan' = nilChan
            /\ proc' = [proc EXCEPT ![p].pc = "nw_close"]
       ELSE /\ waitChan' = waitChan
            /\ EndCall(p, proc[p])
    /\ HistStep(p, counter, hist[p], waitChan # proc[p].waitChan)
    /\ UNCHANGED <<size, blockChan, counter, closed, nchans, calls, legal>>

\* notifyWait: close(waitChan); closing a closed channel panics
notifyWaitClose(p) ==
    /\ proc[p].pc = "nw_close"
    /\ IF proc[p].waitChan.id \in closed
       THEN Return(p, "panic: close of closed channel", 0)
       ELSE EndCall(p, proc[p])
    /\ closed' = closed \cup {proc[p].waitChan.id}
    /\ HistStep(p, counter, hist[p], TRUE)
    /\ UNCHANGED <<size, blockChan, counter, waitChan, nchans, calls, legal>>

\* ---------------------------------------------------------- Wait, WaitChan
\* a test that takes no counter for zero
isZeroNever(c) == FALSE

\* initWaitChan's test: pending <= 0 && active <= 0
isZero(c) == counterParts(c).pending <= 0 /\ counterParts(c).active <= 0

\* initWaitChan: g.waitChan.Load()
CallWait(p) ==
    /\ MayCall(p, WaitCall)
    /\ Called(p, WaitCall)
    /\ proc' = [proc EXCEPT ![p] = [@ EXCEPT !.call = "Wait",
                    !.ret = "none", !.pc = "w_loadctr", !.waitChan = waitChan]]
    /\ HistStep(p, counter, [NoHist EXCEPT !.zeroSince = (counter = 0)], FALSE)
    /\ UNCHANGED <<group, legal>>

\* initWaitChan: g.counter.Load(); closedChan is received from at once
initWaitChan(p) ==
    /\ proc[p].pc = "w_loadctr"
    /\ IF isZero(counter)
       THEN Return(p, "waited", 0)
       ELSE proc' = [proc EXCEPT ![p].pc =
                IF proc[p].waitChan.kind = "chan" THEN "w_block" ELSE "w_cas"]
    /\ HistStep(p, counter, hist[p], isZero(counter))
    /\ UNCHANGED <<group, calls, legal>>

\* a swap that does not compare: it installs newWaitChan whatever is there
initWaitChanSlowCasBlind(p) ==
    /\ proc[p].pc = "w_cas"
    /\ nchans < MaxChans
    /\ nchans' = nchans + 1
    /\ waitChan' = Chan(nchans + 1)
    /\ proc' = [proc EXCEPT ![p].pc = "w_recheck",
                            ![p].waitChan = Chan(nchans + 1)]
    /\ HistStep(p, counter, hist[p], FALSE)
    /\ UNCHANGED <<size, blockChan, counter, closed, calls, legal>>

\* initWaitChanSlow: g.waitChan.CompareAndSwap(waitChan, newWaitChan)
initWaitChanSlowCas(p) ==
    /\ proc[p].pc = "w_cas"
    /\ IF waitChan = proc[p].waitChan
       THEN /\ nchans < MaxChans
            /\ nchans' = nchans + 1
            /\ waitChan' = Chan(nchans + 1)
            /\ proc' = [proc EXCEPT ![p].pc = "w_recheck",
                                    ![p].waitChan = Chan(nchans + 1)]
       ELSE /\ UNCHANGED <<nchans, waitChan>>
            /\ proc' = [proc EXCEPT ![p].pc = "w_reload"]
    /\ HistStep(p, counter, hist[p], FALSE)
    /\ UNCHANGED <<size, blockChan, counter, closed, calls, legal>>

\* initWaitChanSlow: g.counter.Load() after the swap
initWaitChanSlowRecheck(p) ==
    /\ proc[p].pc = "w_recheck"
    /\ IF isZero(counter)
       THEN Return(p, "waited", 0)
       ELSE proc' = [proc EXCEPT ![p].pc = "w_block"]
    /\ HistStep(p, counter, hist[p], isZero(counter))
    /\ UNCHANGED <<group, calls, legal>>

\* initWaitChanSlow: g.waitChan.Load() after a lost swap
initWaitChanSlowReload(p) ==
    /\ proc[p].pc = "w_reload"
    /\ IF waitChan = nilChan
       THEN Return(p, "waited", 0)
       ELSE proc' = [proc EXCEPT ![p].pc = "w_block", ![p].waitChan = waitChan]
    /\ HistStep(p, counter, hist[p], waitChan = nilChan)
    /\ UNCHANGED <<group, calls, legal>>

\* Wait: <-waitChan, which a close makes ready
Wait(p) ==
    /\ proc[p].pc = "w_block"
    /\ proc[p].waitChan.id \in closed
    /\ Return(p, "waited", 0)
    /\ HistStep(p, counter, hist[p], TRUE)
    /\ UNCHANGED <<group, calls, legal>>

\* ------------------------------------------------------------ specification
\* the steps of ReserveN, FreeN and Wait on a sized group
SizedStep(p) ==
    \/ \E d \in {"nil", "open"}, k \in 1..MaxN : CallReserveN(p, d, k)
    \/ ReserveN(p)
    \/ tryReserve(p)
    \/ reserveNSlow(p)
    \/ CloseDone(p)
    \/ reserveNSuccessWaitLoad(p)
    \/ reserveNSuccessWaitPoll(p)
    \/ reserveNSuccessWaitCas(p)
    \/ reserveNAbortWait(p)
    \/ \E k \in 1..MaxN : CallFreeN(p, k)
    \/ notifyFreeLoad(p)
    \/ notifyFreeSelect(p)
    \/ notifyFreeReload(p)
    \/ notifyWaitLoad(p)
    \/ notifyWaitCas(p)
    \/ notifyWaitClose(p)
    \/ CallWait(p)
    \/ initWaitChan(p)
    \/ initWaitChanSlowCas(p)
    \/ initWaitChanSlowRecheck(p)
    \/ Wait(p)

Next ==
    \E p \in Procs :
        \/ SizedStep(p)
        \/ ReserveUnlimited(p)
        \/ ReserveTooBig(p)
        \/ \E k \in 1..MaxN : CallTryReserveN(p, k)
        \/ initWaitChanSlowReload(p)

Spec == Init /\ [][Next]_vars

\* a program whose goroutines free without regard to what they hold
MisuseBudgets == {Budget(MaxOps - 1, MaxWaits - 1), Budget(MaxOps - 2, MaxWaits)}

InitMisuse ==
    /\ \E s \in 0..MaxSize : InitGroup(s)
    /\ \E b \in MisuseBudgets : InitProcs(b, {})

SpecMisuse == InitMisuse /\ [][Next]_vars

\* the steps of a scripted run on a sized group
NextSized == \E p \in Procs : SizedStep(p)

\* helperTestGroupRacePanic: NewGroup(1) and Reserve, then a goroutine that
\* reserves with a doneChan and frees if it got the slot, racing Free calls,
\* and the Wait of the first goroutine
RaceFreers == {<<"b", "w", "v">>[i] : i \in 1..MaxFrees}

RaceScript ==
    [p \in Procs |->
        IF p = Main THEN <<ReserveNCall("nil", 1), WaitCall>>
        ELSE IF p \in RaceFreers THEN <<FreeNCall(1)>>
        ELSE IF p = "c" THEN <<ReserveNCall("open", 1), FreeNCall(1)>>
        ELSE <<>>]

InitRace ==
    /\ InitGroup(1)
    /\ InitProcs(Script(RaceScript, 1), Procs \ RaceFreers)

SpecRace == InitRace /\ [][NextSized]_vars

\* a full group of size 1 whose holder frees and then makes a reservation
\* that is cancelled, a second reserver that frees what it gets, a third
\* whose doneChan is closed at some instant, and a Wait
CancelScript ==
    [p \in Procs |->
        IF p = Main
        THEN <<ReserveNCall("nil", 1), FreeNCall(1), ReserveNCall("open", 1)>>
        ELSE IF p = "b" THEN <<ReserveNCall("nil", 1), FreeNCall(1)>>
        ELSE IF p = "c" THEN <<ReserveNCall("open", 1)>>
        ELSE IF p = "w" THEN <<WaitCall>>
        ELSE <<>>]

InitCancel ==
    /\ InitGroup(1)
    /\ InitProcs(Script(CancelScript, 2), Procs)

SpecCancel == InitCancel /\ [][NextSized]_vars

\* ------------------------------------------------------------ counterUpdate
\* largest delta passed to counterUpdate, in either direction
MaxDelta == 2

\* the halves from which the words of the counter are drawn: pending at and
\* next to 0 and its largest value, active at and next to 0 and both ends
PendingEnds == {0, 1, Half - 2, Half - 1}
ActiveEnds ==
    {0 - Half \div 2, 1 - Half \div 2, 0 - 1, 0, 1,
     Half \div 2 - 2, Half \div 2 - 1}

\* a caller of counterUpdate: g.counter.Load(), and the deltas it passes
counterLoad(p, pd, ad) ==
    /\ proc[p].pc = "idle"
    /\ proc[p].ret = "none"
    /\ proc' = [proc EXCEPT ![p] = [@ EXCEPT
                    !.pc = "cu_cas", !.call = "counterUpdate",
                    !.counter = counter,
                    !.pendingDelta = pd, !.activeDelta = ad]]
    /\ UNCHANGED <<group, calls, legal, hist>>

\* counterUpdate: the new word, and g.counter.CompareAndSwap(oldCounter,
\* newCounter); ok is returned, and the local counter is the new word
counterCas(p) ==
    /\ proc[p].pc = "cu_cas"
    /\ LET l == proc[p]
           newCounter == counterUpdate(l.counter, l.pendingDelta, l.activeDelta)
           ok == counter = l.counter
       IN /\ counter' = IF ok THEN newCounter ELSE counter
          /\ proc' = [proc EXCEPT ![p] = [l EXCEPT
                          !.pc = "idle", !.counter = newCounter,
                          !.ret = IF ok THEN "true" ELSE "false"]]
    /\ UNCHANGED <<size, blockChan, waitChan, closed, nchans, calls, legal,
                   hist>>

\* two goroutines that each make one counterUpdate on a Group whose counter
\* holds any word made of the halves above
InitCounter ==
    /\ size = 0
    /\ blockChan = FALSE
    /\ \E pending \in PendingEnds, active \in ActiveEnds :
          counter = Pack(pending, active)
    /\ waitChan = nilValue
    /\ closed = {}
    /\ nchans = 0
    /\ InitProcs(Budget(0, 0), Procs)

NextCounter ==
    \E p \in Pool :
        \/ \E pd, ad \in (0 - MaxDelta)..MaxDelta : counterLoad(p, pd, ad)
        \/ counterCas(p)

SpecCounter == InitCounter /\ [][NextCounter]_vars

\* TestSemaGroup: the same Group goes through several rounds of Reserve,
\* Free and Wait; here Main reserves and frees twice, a second worker
\* reserves with a doneChan and frees what it got, one goroutine waits twice
\* and another once
RoundsScript ==
    [p \in Procs |->
        IF p = Main
        THEN <<ReserveNCall("nil", 1), FreeNCall(1),
               ReserveNCall("nil", 1), FreeNCall(1)>>
        ELSE IF p = "b" THEN <<ReserveNCall("open", 1), FreeNCall(1)>>
        ELSE IF p = "w" THEN <<WaitCall, WaitCall>>
        ELSE IF p = "v" THEN <<WaitCall>>
        ELSE <<>>]

InitRounds ==
    /\ \E s \in 0..1 : InitGroup(s)
    /\ InitProcs(Script(RoundsScript, 4), Procs)

NextRounds ==
    \E p \in Procs :
        \/ SizedStep(p)
        \/ ReserveUnlimited(p)
        \/ initWaitChanSlowReload(p)

SpecRounds == InitRounds /\ [][NextRounds]_vars

\* the steps of ReserveN without a doneChan and of FreeN on a sized group
DrainStep(p) ==
    \/ \E k \in 1..MaxN : CallReserveN(p, "nil", k)
    \/ ReserveN(p)
    \/ tryReserve(p)
    \/ reserveNSlow(p)
    \/ reserveNSuccessWaitLoad(p)
    \/ reserveNSuccessWaitPoll(p)
    \/ reserveNSuccessWaitCas(p)
    \/ \E k \in 1..MaxN : CallFreeN(p, k)
    \/ notifyFreeLoad(p)
    \/ notifyFreeSelect(p)
    \/ notifyFreeReload(p)
    \/ notifyWaitLoad(p)

NextDrain == \E p \in Procs : DrainStep(p)

\* HammerGroup: each worker reserves a weight within the size and frees it
DrainScript(weight) ==
    [p \in Procs |->
        IF p \in Workers
        THEN <<ReserveNCall("nil", weight[p]), FreeNCall(weight[p])>>
        ELSE <<>>]

InitDrain ==
    \E s \in 1..MaxSize :
        /\ InitGroup(s)
        /\ \E weight \in [Workers -> 1..s] :
              InitProcs(Script(DrainScript(weight), 2), Procs)

\* the scheduler runs every goroutine that can take a step
SpecDrain ==
    InitDrain /\ [][NextDrain]_vars /\ \A p \in Procs : WF_vars(DrainStep(p))

\* TestLargeReserveDoesntStarve: the first goroutine reserves one slot for
\* each holder and then the whole size; every holder frees its slot and
\* reserves it again, over and over
StarveHolders(s) == {<<"b", "c", "w", "v">>[i] : i \in 1..s}

StarveScript(s) ==
    [p \in Procs |->
        IF p = Main
        THEN [i \in 1..(s + 1) |->
                ReserveNCall("nil", IF i <= s THEN 1 ELSE s)]
        ELSE IF p \in StarveHolders(s)
        THEN <<FreeNCall(1), ReserveNCall("nil", 1)>>
        ELSE <<>>]

InitStarve ==
    \E s \in 1..MaxSize :
        /\ InitGroup(s)
        /\ InitProcs(LoopScript(StarveScript(s), 1, StarveHolders(s)), {Main})

\* the send of notifyFree's select completing with receiver r
notifyFreeSend(p, r) ==
    notifyFreeSelect(p) /\ Parked(r) /\ proc'[r].pc = "sw_load"

\* a step of reserveNSuccessWait's loop taken before any other goroutine has
\* changed the counter this iteration loaded: the poll of doneChan, and the
\* counterUpdate that wins its CAS
reserveNSuccessWaitUnraced(p) ==
    reserveNSuccessWaitPoll(p) /\ counter = proc[p].counter

reserveNSuccessWaitCommit(p) ==
    reserveNSuccessWaitCas(p) /\ counter = proc[p].counter

\* the scheduler runs every goroutine that can take a step; the block
\* channel serves its waiting receivers in the order they arrived, so that a
\* receiver that keeps waiting while sends complete is served; and a loop
\* around counterUpdate that keeps retrying does not lose every CAS
SpecStarve ==
    /\ InitStarve
    /\ [][NextDrain]_vars
    /\ \A p \in Procs : WF_vars(DrainStep(p))
    /\ SF_vars(\E p \in Procs : notifyFreeSend(p, Main))
    /\ SF_vars(reserveNSuccessWaitUnraced(Main))
    /\ SF_vars(reserveNSuccessWaitCommit(Main))

\* the steps of ReserveN without a doneChan, of TryReserveN and of FreeN
NextTry ==
    \E p \in Procs :
        \/ DrainStep(p)
        \/ ReserveUnlimited(p)
        \/ \E k \in 1..MaxN : CallTryReserveN(p, k)

\* TestGroupTryReserveN: one goroutine reserves, tries and frees in turn
TrySeqScript ==
    [p \in Procs |->
        IF p = Main
        THEN <<ReserveNCall("nil", 1), TryReserveNCall(1), TryReserveNCall(1),
               FreeNCall(2), TryReserveNCall(1), ReserveNCall("nil", 1),
               TryReserveNCall(1)>>
        ELSE <<>>]

\* what the calls of TrySeqScript return; the test keeps those of the
\* TryReserveN calls and wants them to be true, false, true, false
TrySeqReturns == <<"true", "true", "false", "ok", "true", "true", "false">>

\* a goroutine that calls TryReserveN, twice on an unlimited group and over
\* and over on a sized one, racing the reservations and frees of two others
TryRaceScript(try1, try2, n) ==
    [p \in Procs |->
        IF p = Main THEN <<ReserveNCall("nil", 1), FreeNCall(1)>>
        ELSE IF p = "b" THEN <<TryReserveNCall(try1), TryReserveNCall(try2)>>
        ELSE IF p = "c" THEN <<ReserveNCall("nil", n), FreeNCall(n)>>
        ELSE <<>>]

InitTry ==
    \/ /\ InitGroup(2)
       /\ InitProcs(Script(TrySeqScript, 0), Procs)
    \/ /\ \E s \in 0..MaxSize : InitGroup(s)
       /\ \E try1, try2, n \in 1..MaxN :
             InitProcs(LoopScript(TryRaceScript(try1, try2, n), 2,
                                  IF size = 0 THEN {} ELSE {"b"}),
                       Procs)

SpecTry == InitTry /\ [][NextTry]_vars

\* the steps a goroutine takes inside a call of ReserveN or FreeN on a sized
\* group, none of which waits for a new call or for a doneChan
Progress(p) ==
    \/ ReserveN(p)
    \/ tryReserve(p)
    \/ reserveNSlow(p)
    \/ reserveNSuccessWaitLoad(p)
    \/ reserveNSuccessWaitPoll(p)
    \/ reserveNSuccessWaitCas(p)
    \/ reserveNAbortWait(p)
    \/ notifyFreeLoad(p)
    \/ notifyFreeSelect(p)
    \/ notifyFreeReload(p)
    \/ notifyWaitLoad(p)

\* those steps, the calls, and the doneChans becoming ready
NextAbort ==
    \E p \in Procs :
        \/ \E d \in {"nil", "open"}, k \in 1..MaxN : CallReserveN(p, d, k)
        \/ \E k \in 1..MaxN : CallFreeN(p, k)
        \/ CloseDone(p)
        \/ Progress(p)

\* TestAllocCancelDoesntStarve and its variants: the first goroutine holds a
\* slot, which it may free; b reserves a weight with a doneChan and c a slot,
\* with a doneChan or without, and each frees what it got
AbortScript(nb, dc) ==
    [p \in Procs |->
        IF p = Main THEN <<ReserveNCall("nil", 1), FreeNCall(1)>>
        ELSE IF p = "b" THEN <<ReserveNCall("open", nb), FreeNCall(nb)>>
        ELSE IF p = "c" THEN <<ReserveNCall(dc, 1), FreeNCall(1)>>
        ELSE <<>>]

InitAbort ==
    \E s \in 1..MaxSize :
        /\ InitGroup(s)
        /\ \E nb \in 1..s, dc \in {"nil", "open"} :
              InitProcs(Script(AbortScript(nb, dc), 1), Procs)

\* the scheduler runs every goroutine that is inside a call and can take a
\* step; nothing is assumed about when calls are made or doneChans close
SpecAbort ==
    InitAbort /\ [][NextAbort]_vars /\ \A p \in Procs : WF_vars(Progress(p))

\* a holder of two slots that frees them one by one while a large and a
\* small reservation are waiting, each with a doneChan that may be closed
HandoffScript(nb, nc) ==
    [p \in Procs |->
        IF p = Main
        THEN <<ReserveNCall("nil", 1), ReserveNCall("nil", 1),
               FreeNCall(1), FreeNCall(1)>>
        ELSE IF p = "b" THEN <<ReserveNCall("open", nb), FreeNCall(nb)>>
        ELSE IF p = "c" THEN <<ReserveNCall("open", nc), FreeNCall(nc)>>
        ELSE <<>>]

InitHandoff ==
    /\ InitGroup(MaxSize)
    /\ \E nb, nc \in 1..MaxN :
          InitProcs(Script(HandoffScript(nb, nc), 2), Procs)

SpecHandoff == InitHandoff /\ [][NextAbort]_vars

\* the steps of a run in which calls are made with any n, on a group of any
\* size, around a Wait
NextInvalid ==
    \E p \in Procs :
        \/ \E d \in {"nil", "closed"}, k \in (0 - 1)..MaxN : CallReserveN(p, d, k)
        \/ ReserveN(p)
        \/ ReserveUnlimited(p)
        \/ tryReserve(p)
        \/ reserveNSlow(p)
        \/ reserveNSuccessWaitLoad(p)
        \/ reserveNSuccessWaitPoll(p)
        \/ reserveNSuccessWaitCas(p)
        \/ \E k \in (0 - 1)..MaxN : CallTryReserveN(p, k)
        \/ \E k \in (0 - 1)..MaxN : CallFreeN(p, k)
        \/ notifyFreeLoad(p)
        \/ notifyFreeSelect(p)
        \/ notifyFreeReload(p)
        \/ notifyWaitLoad(p)
        \/ notifyWaitCas(p)
        \/ notifyWaitClose(p)
        \/ CallWait(p)
        \/ initWaitChan(p)
        \/ initWaitChanSlowCas(p)
        \/ initWaitChanSlowRecheck(p)
        \/ Wait(p)

\* the calls with an n of 0 or less
InvalidCalls ==
    {ReserveNCall(d, k) : d \in {"nil", "closed"}, k \in (0 - 1)..0}
        \cup {TryReserveNCall(k) : k \in (0 - 1)..0}
        \cup {FreeNCall(k) : k \in (0 - 1)..0}

\* a goroutine that reserves a slot and, once it has it, starts one that
\* makes two calls with an n of 0 or less, one that reserves and frees a
\* slot, and one that waits; then it frees its slot
InvalidScript(bad1, bad2) ==
    [p \in Procs |->
        IF p = Main THEN <<ReserveNCall("nil", 1), FreeNCall(1)>>
        ELSE IF p = "b" THEN <<bad1, bad2>>
        ELSE IF p = "c" THEN <<ReserveNCall("nil", 1), FreeNCall(1)>>
        ELSE IF p = "w" THEN <<WaitCall>>
        ELSE <<>>]

InitInvalid ==
    /\ \E s \in 0..MaxSize : InitGroup(s)
    /\ \E bad1, bad2 \in InvalidCalls :
          InitProcs(Script(InvalidScript(bad1, bad2), 1), Procs)

SpecInvalid == InitInvalid /\ [][NextInvalid]_vars

\* ------------------------------------------------------------------ SetSize
SetSizeCall(s) == [op |-> "SetSize", done |-> "nil", n |-> s]

\* the panics of SetSize
concurrentReserve ==
    "sema.Group: concurrent Reserve calls while initializing group"

alreadyInitialized == "sema.Group: group already initialized"

\* a test that never finds the group initialized
initializedNever(bc) == FALSE

\* SetSize's test of the block channel: g.blockChan.Load() != nil
initialized(bc) == bc

\* a reservation has been committed on the group: a goroutine holds weight,
\* or is freeing or has freed what it held
Used ==
    \E q \in Procs :
        \/ proc[q].held > 0
        \/ proc[q].call = "FreeN"
        \/ proc[q].ret \in {"true", "ok", negativeCounter}

\* a call of SetSize(s) begins
CallSetSize(p, s) ==
    /\ MayCall(p, SetSizeCall(s))
    /\ Called(p, SetSizeCall(s))
    /\ proc' = [proc EXCEPT ![p] = [@ EXCEPT !.pc = "ss_load",
                    !.call = "SetSize", !.n = s, !.ret = "none"]]
    /\ HistStep(p, counter, [NoHist EXCEPT !.used = Used], FALSE)
    /\ UNCHANGED <<group, legal>>

\* SetSize: check if the Group has already started counting
SetSizeCheckCounter(p) ==
    /\ proc[p].pc = "ss_load"
    /\ IF counter # 0
       THEN Return(p, concurrentReserve, 0)
       ELSE proc' = [proc EXCEPT ![p].pc = "ss_check"]
    /\ HistStep(p, counter, hist[p], counter # 0)
    /\ UNCHANGED <<group, calls, legal>>

\* SetSize: check if the Group is already initialized, and setSize up to its
\* branch on the size
SetSizeCheckBlockChan(p) ==
    /\ proc[p].pc = "ss_check"
    /\ IF initialized(blockChan)
       THEN Return(p, alreadyInitialized, 0)
       ELSE proc' = [proc EXCEPT ![p].pc =
                IF proc[p].n > 0 THEN "ss_size" ELSE "ss_recheck"]
    /\ HistStep(p, counter, hist[p], initialized(blockChan))
    /\ UNCHANGED <<group, calls, legal>>

\* setSize: g.size.Store(s)
setSizeStoreSize(p) ==
    /\ proc[p].pc = "ss_size"
    /\ size' = proc[p].n
    /\ proc' = [proc EXCEPT ![p].pc = "ss_chan"]
    /\ HistStep(p, counter, hist[p], FALSE)
    /\ UNCHANGED <<blockChan, counter, waitChan, closed, nchans, calls, legal>>

\* setSize: g.blockChan.Store(make(chan struct{}))
setSizeStoreBlockChan(p) ==
    /\ proc[p].pc = "ss_chan"
    /\ blockChan' = TRUE
    /\ proc' = [proc EXCEPT ![p].pc = "ss_recheck"]
    /\ HistStep(p, counter, hist[p], FALSE)
    /\ UNCHANGED <<size, counter, waitChan, closed, nchans, calls, legal>>

\* SetSize: re-check if the Group has already started counting
SetSizeRecheckCounter(p) ==
    /\ proc[p].pc = "ss_recheck"
    /\ Return(p, IF counter # 0 THEN concurrentReserve ELSE "set", 0)
    /\ HistStep(p, counter, hist[p], TRUE)
    /\ UNCHANGED <<group, calls, legal>>

\* the sizes SetSize is called with
SetSizes == (0 - 1)..MaxSize

NextSetSize ==
    \E p \in Procs :
        \/ DrainStep(p)
        \/ ReserveUnlimited(p)
        \/ \E s \in SetSizes : CallSetSize(p, s)
        \/ SetSizeCheckCounter(p)
        \/ SetSizeCheckBlockChan(p)
        \/ setSizeStoreSize(p)
        \/ setSizeStoreBlockChan(p)
        \/ SetSizeRecheckCounter(p)

\* a goroutine that calls SetSize twice and, once its first call has
\* returned, two others that each call Reserve and Free
SetSizeScript(s1, s2) ==
    [p \in Procs |->
        IF p = Main THEN <<SetSizeCall(s1), SetSizeCall(s2)>>
        ELSE IF p \in Workers THEN <<ReserveNCall("nil", 1), FreeNCall(1)>>
        ELSE <<>>]

InitSetSize ==
    /\ \E s \in 0..MaxSize : InitGroup(s)
    /\ \E s1, s2 \in SetSizes :
          InitProcs(Script(SetSizeScript(s1, s2), 1), Procs)

SpecSetSize == InitSetSize /\ [][NextSetSize]_vars

\* the zero value of Group
ZeroGroup ==
    [size |-> 0, blockChan |-> FALSE, counter |-> 0, waitChan |-> nilValue]

\* a setSize that creates the block channel whatever the size
setSizeAlwaysChan(g, s) ==
    [g EXCEPT !.size = IF s > 0 THEN s ELSE 0, !.blockChan = TRUE]

\* setSize: a negative size is normalized to 0, and only a size that is not
\* zero is saved and gets a block channel
setSize(g, s) ==
    LET sz == IF s < 0 THEN 0 ELSE s
    IN IF sz > 0 THEN [g EXCEPT !.size = sz, !.blockChan = TRUE] ELSE g

\* NewGroup: g := &Group{}; g.setSize(size)
NewGroup(s) == setSize(ZeroGroup, s)

\* the fields of the group
Group ==
    [size |-> size, blockChan |-> blockChan, counter |-> counter,
     waitChan |-> waitChan]

\* ------------------------------------------------------------------ claims
\* C1: no spurious wake-up: a Wait call completes only if the counter word
\* was (pending, active) = (0, 0) at some instant at or after the call began.
C1_NoSpuriousWakeup ==
    \A q \in Waiters : proc[q].ret = "waited" => hist[q].zeroSince

\* C2: no lost wake-up: once the call that emptied the group has completed,
\* a Wait that was blocked on the installed channel at that instant has
\* returned, or its channel is closed or held by a goroutine about to close it.
C2_NoLostWakeup ==
    \A q \in Waiters :
        hist[q].due /\ proc[q].pc = "w_block" =>
            \/ proc[q].waitChan.id \in closed
            \/ \E r \in Procs : /\ proc[r].pc = "nw_close"
                                /\ proc[r].waitChan = proc[q].waitChan

\* the sum of f over the goroutines of S
RECURSIVE SumOver(_, _)
SumOver(f, S) ==
    IF S = {} THEN 0
    ELSE LET p == CHOOSE x \in S : TRUE IN f[p] + SumOver(f, S \ {p})

\* weight reserved by calls that returned true, less the weight freed
HeldWeight == SumOver([p \in Procs |-> proc[p].held], Procs)

\* weight of the ReserveN calls that are enqueued: counted in pending by
\* tryReserve and neither committed nor taken back by reserveNAbortWait
EnqueuedWeight ==
    SumOver([p \in Procs |->
                IF proc[p].pc \in SlowPcs \cup {"ab_sub"} THEN proc[p].n ELSE 0],
            Procs)

\* C3: on a sized Group, ActiveCount never exceeds the size.
C3_ActiveWithinSize == size > 0 => Active <= size

\* a full group with a reserver parked behind it and a slow-path commit made
C3_Witness ==
    /\ size > 0
    /\ Active = size
    /\ \E p \in Procs : proc[p].pc = "slow_parked"
    /\ \E q \in Procs : proc[q].ret = "true" /\ hist[q].enq > 0

\* C4: balance: active is the weight of the reservations that returned true
\* less the weight of the FreeN decrements committed so far.
C4_Balance == Active = HeldWeight

\* a cancelled call has returned false while weight is held and some was freed
C4_Witness ==
    /\ \E p \in Procs : proc[p].ret = "false" /\ hist[p].enq > 0
    /\ \E q \in Procs : proc[q].ret = "ok"
    /\ Active > 0

\* C5: in a legal program active is never negative and no call panics with
\* "sema.Group: negative group counter".
C5_LegalNeverNegative ==
    /\ Active >= 0
    /\ \A p \in Procs : proc[p].ret # negativeCounter

\* a reserver is aborting while a FreeN is between its decrement and its end
C5_Witness ==
    /\ legal = Procs
    /\ \E p, q \in Procs :
          /\ proc[p].call = "ReserveN" /\ proc[p].pc \in {"ab_sub", "nf_load", "nf_send"}
          /\ proc[q].call = "FreeN" /\ proc[q].pc \in {"nf_load", "nf_send", "nf_reload"}

\* C6: a FreeN whose decrement takes the active count below zero panics with
\* exactly "sema.Group: negative group counter", and no other FreeN does.
C6_BelowZeroPanics ==
    \A p \in Procs :
        proc[p].pc = "idle" =>
            (hist[p].below <=> proc[p].ret = negativeCounter)

\* on a sized group a Free has returned normally and a later one has panicked
C6_Witness ==
    /\ size > 0
    /\ \E p, q \in Procs :
          /\ proc[p].ret = negativeCounter /\ hist[p].below
          /\ proc[q].ret = "ok"

\* goroutine p has made every call of its script
Finished(p) == calls.script[p] = <<>> /\ proc[p].pc = "idle"

\* C7: when the racing Free calls have all returned and the blocked ReserveN
\* was cancelled, as many of them returned normally as the weight that was
\* held and the others panicked with the negative-counter tag; the ReserveN
\* itself does not panic.
C7_RacingFrees ==
    /\ Len(calls.script["c"]) = 1 => proc["c"].ret \in {"none", "true", "false"}
    /\ (\A p \in RaceFreers : Finished(p)) /\ proc["c"].ret = "false" =>
          /\ Cardinality({p \in RaceFreers : proc[p].ret = "ok"}) = proc[Main].held
          /\ Cardinality({p \in RaceFreers : proc[p].ret = negativeCounter})
                = Cardinality(RaceFreers) - proc[Main].held

\* the Free calls have returned and the ReserveN, which had been blocked,
\* has returned false
C7_Witness ==
    /\ \A p \in RaceFreers : Finished(p)
    /\ proc["c"].ret = "false"
    /\ hist["c"].enq > 0

\* every goroutine is between calls
Quiescent == \A p \in Procs : proc[p].pc = "idle"

\* C8: cancellation cleanliness: pending counts exactly the weight of the
\* calls that are enqueued, so a ReserveN that has returned false has left
\* none of its n there, and its n never reached active; once every call has
\* returned and every holder has freed, both counts are 0 and a
\* TryReserveN(Size) finds room.
C8_CancelClean ==
    /\ Pending = EnqueuedWeight
    /\ \A p \in Procs :
          proc[p].pc = "idle" /\ proc[p].ret = "false" => Active = HeldWeight
    /\ Quiescent /\ HeldWeight = 0 =>
          /\ counter = 0
          /\ size > 0 => hasRoom(counter, size, size)

\* every call has returned, one of them a ReserveN that had enqueued and then
\* returned false, and all that was held has been freed
C8_Witness ==
    /\ Quiescent
    /\ HeldWeight = 0
    /\ \E p \in Procs : proc[p].ret = "false" /\ hist[p].enq > 0
    /\ \E q \in Procs : proc[q].ret = "ok"

\* C9: a ReserveN whose doneChan is receive-ready when it is polled returns
\* false and leaves the counter word unchanged, whatever the size and the room.
C9_ReadyDoneReturnsFalse ==
    [][\A p \in Procs :
          proc[p].pc = "rn_start" /\ proc[p].done = "closed"
              /\ proc'[p].pc # "rn_start"
          => /\ proc'[p].pc = "idle"
             /\ proc'[p].ret = "false"
             /\ counter' = counter]_vars

\* a ReserveN has returned false on its first poll of doneChan while the
\* group had room for its n
C9_Witness ==
    \E p \in Procs :
        /\ proc[p].pc = "idle"
        /\ proc[p].ret = "false"
        /\ hist[p].refused

\* C10: a pending ReserveN whose doneChan was closed while there was no room
\* for its n (active + n > size) does not return true.
C10_CancelledNeverCommits ==
    \A p \in Procs : hist[p].doomed => proc[p].ret # "true"

\* weight is pending, nothing is held, and every goroutine is either between
\* calls or parked in reserveNSlow: no wake-up is in flight
Stuck ==
    /\ Pending > 0
    /\ Active = 0
    /\ \A p \in Procs : proc[p].pc \in {"idle", "slow_parked"}

\* every goroutine has made all its calls and the group is empty
Drained == (\A p \in Procs : Finished(p)) /\ counter = 0

\* C11: drain: reservers of weights within the size that free what they got
\* never reach a state where weight is pending, nothing is held and all of
\* them are parked with no wake-up in flight, and under fair scheduling all
\* of them complete and the group becomes empty.
C11_Drains == [](~Stuck) /\ <>Drained

\* a reserver that had been enqueued has committed while weight is pending
C11_Witness ==
    /\ Pending > 0
    /\ \E p \in Procs : proc[p].ret = "true" /\ hist[p].enq > 0

Settled ==
    \A p \in Procs : proc[p].pc \in {"idle", "slow_parked"} \cup WaitPcs

\* the weight of p's call fits in what the holders leave of the size
Fits(p) == Active + proc[p].n <= size

\* C13: a ReserveN blocks only until sufficient capacity is free: in a
\* quiescent state no parked reserver has a weight that fits.
C13_ParkedNeverFits ==
    Settled => \A p \in Procs : Parked(p) => ~Fits(p)

\* C13, for the reservers that no other is parked in front of: in a
\* quiescent state with parked reservers, at least one of them has a weight
\* that does not fit.
C13_ParkedBehindUnfit ==
    Settled /\ (\E p \in Procs : Parked(p)) =>
        \E p \in Procs : Parked(p) /\ ~Fits(p)

\* the run of TrySeqScript, in which no other goroutine makes a call
Sequential == calls.spawnAt = 0

\* the number of calls Main has made of TrySeqScript
TrySeqMade == Len(TrySeqScript[Main]) - Len(calls.script[Main])

\* p's call of TryReserveN(n) with n within the size reads the counter
TryReads(p) == proc[p].pc = "tr_try" /\ proc'[p] # proc[p]

\* p calls TryReserveN(n) with n above the size
TryTooBig(p) ==
    /\ calls.script[p] # <<>>
    /\ calls'.script[p] # calls.script[p]
    /\ Head(calls.script[p]).op = "TryReserveN"
    /\ size > 0
    /\ Head(calls.script[p]).n > size

\* C14: on a sized group TryReserveN(n) returns true exactly when the counter
\* it reads has pending = 0 and active + n <= size, and then adds n to
\* active; otherwise, or when n > size, it returns false; called in turn on
\* a group of size 2, Reserve, Try, Try, FreeN(2), Try, Reserve, Try make the
\* tries return true, false, true, false.
C14_TryReserveN ==
    /\ [][\A p \in Procs :
            /\ TryReads(p) =>
                 LET n == proc[p].n
                     fits == Pending = 0 /\ Active + n <= size
                 IN /\ proc'[p].pc = "idle"
                    /\ proc'[p].ret = IF fits THEN "true" ELSE "false"
                    /\ Pending' = Pending
                    /\ Active' = IF fits THEN Active + n ELSE Active
            /\ TryTooBig(p) =>
                 /\ proc'[p].pc = "idle"
                 /\ proc'[p].ret = "false"
                 /\ counter' = counter]_vars
    /\ [](Sequential /\ proc[Main].pc = "idle" /\ TrySeqMade > 0 =>
            proc[Main].ret = TrySeqReturns[TrySeqMade])

\* b, whose tries are all of weight 1, has been refused and holds nothing,
\* while c is still enqueued: at most the slot of Main was held, so the
\* group had room for 1 and the refusal comes from the weight pending
C14_Witness ==
    /\ ~Sequential
    /\ size > 1
    /\ calls.script["b"] = <<TryReserveNCall(1), TryReserveNCall(1)>>
    /\ proc["b"].pc = "idle"
    /\ proc["b"].ret = "false"
    /\ proc["b"].held = 0
    /\ proc["c"].pc \in SlowPcs

\* a step of a TryReserveN call of p: the call itself, or the read of the
\* counter that ends it
TryStep(p) ==
    \/ /\ calls.script[p] # <<>>
       /\ calls'.script[p] # calls.script[p]
       /\ Head(calls.script[p]).op = "TryReserveN"
    \/ proc[p].pc \in {"tr_try", "tr_unl"} /\ proc'[p] # proc[p]

\* C15: TryReserveN never changes the pending half of the counter, and a
\* TryReserveN that returns false leaves the counter word, the size, the
\* block channel and the wait channel unchanged.
C15_TryReserveNFrame ==
    [][\A p \in Procs : TryStep(p) =>
            /\ Pending' = Pending
            /\ proc'[p].ret = "false" =>
                 UNCHANGED <<counter, size, blockChan, waitChan>>]_vars

\* b, which only calls TryReserveN, holds the weight of a try that succeeded
\* and has then been refused while weight was pending
C15_Witness ==
    /\ proc["b"].pc = "idle"
    /\ proc["b"].ret = "false"
    /\ proc["b"].held > 0
    /\ Pending > 0

\* C16: unlimited mode: NewGroup(0) is the zero value of Group, which has
\* size 0 and no block channel; on it pending is 0 in every state, no
\* Reserve, ReserveN or TryReserveN call is ever at a position where it
\* waits, and every such call but a ReserveN whose doneChan is ready goes on,
\* whatever the counter, to add n to active and return true.
C16_Unlimited ==
    /\ NewGroup(0) = ZeroGroup
    /\ Group = NewGroup(size)
    /\ [](size = 0 =>
            /\ ~blockChan
            /\ Pending = 0
            /\ \A p \in Procs :
                  /\ proc[p].call \in {"ReserveN", "TryReserveN"} =>
                       proc[p].pc \in {"rn_start", "rn_unl", "tr_unl"}
                  /\ proc[p].pc \in {"rn_unl", "tr_unl"} =>
                       ENABLED ReserveUnlimited(p))
    /\ [][size = 0 => \A p \in Procs :
            /\ proc[p].pc = "rn_start" /\ proc'[p].pc # "rn_start" =>
                 IF proc[p].done = "closed"
                 THEN proc'[p].pc = "idle" /\ proc'[p].ret = "false"
                 ELSE proc'[p].pc = "rn_unl"
            /\ proc[p].pc \in {"rn_unl", "tr_unl"} /\ proc'[p].pc # proc[p].pc =>
                 /\ proc'[p].pc = "idle"
                 /\ proc'[p].ret = "true"
                 /\ Active' = Active + proc[p].n
            /\ proc[p].pc = "idle" /\ proc'[p].call = "TryReserveN" =>
                 proc'[p].pc = "tr_unl"]_vars

\* on a group without size more weight is held than any size of the model
\* allows, by calls that returned true
C16_Witness ==
    /\ size = 0
    /\ Active > MaxSize
    /\ \A p \in Pool : proc[p].pc = "idle" /\ proc[p].ret = "true"

\* p's call is a ReserveN of a weight above the size of a sized group, with
\* a doneChan
Oversized(p) ==
    /\ proc[p].call = "ReserveN"
    /\ size > 0
    /\ proc[p].n > size
    /\ proc[p].done # "nil"

\* C17: a ReserveN(doneChan, n) with n > size > 0 and a doneChan waits until
\* doneChan is receive-ready and then returns false; no step of it changes
\* the counter, and while it waits a ReserveN or TryReserveN that reads a
\* counter with nothing pending and room for its weight succeeds.
C17_OversizedWaitsForDone ==
    /\ [](\A p \in Procs : proc[p].pc = "rn_big" =>
            /\ Oversized(p)
            /\ ENABLED ReserveTooBig(p) <=> proc[p].done = "closed")
    /\ [][\A p \in Procs :
            /\ proc[p].pc = "idle" /\ proc'[p].pc = "rn_start" /\ Oversized(p)' =>
                 counter' = counter
            /\ Oversized(p) /\ proc[p].pc = "rn_start" /\ proc'[p].pc # "rn_start" =>
                 /\ counter' = counter
                 /\ IF proc[p].done = "closed"
                    THEN proc'[p].pc = "idle" /\ proc'[p].ret = "false"
                    ELSE proc'[p].pc = "rn_big"
            /\ proc[p].pc = "rn_big" /\ proc'[p].pc # "rn_big" =>
                 /\ proc[p].done = "closed"
                 /\ proc'[p].pc = "idle"
                 /\ proc'[p].ret = "false"
                 /\ counter' = counter
            /\ /\ \E q \in Procs : proc[q].pc = "rn_big"
               /\ proc[p].pc \in {"rn_try", "tr_try"}
               /\ proc'[p].pc # proc[p].pc
               /\ Pending = 0
               /\ Active + proc[p].n <= size
               => /\ proc'[p].pc = "idle"
                  /\ proc'[p].ret = "true"
                  /\ Active' = Active + proc[p].n]_vars

\* two calls have been made: the oversized ReserveN of the first goroutine,
\* which waits with its doneChan open, and a reservation of the second, begun
\* later, which has succeeded and fills the group
C17_Witness ==
    /\ calls.work = MaxOps - 2
    /\ calls.wait = MaxWaits - 1
    /\ \A q \in Waiters : ~Started(q)
    /\ proc["a"].pc = "rn_big"
    /\ proc["a"].done = "open"
    /\ proc["b"].pc = "idle"
    /\ proc["b"].ret = "true"
    /\ Active = size

\* p's call is a ReserveN of a weight above the size of a sized group,
\* without a doneChan
OversizedNoDone(p) ==
    /\ proc[p].call = "ReserveN"
    /\ size > 0
    /\ proc[p].n > size
    /\ proc[p].done = "nil"

\* C18: a ReserveN(nil, n) with n > size > 0 blocks forever: the call never
\* returns.
C18_OversizedNeverReturns ==
    [][\A p \in Procs : OversizedNoDone(p) => proc'[p].pc # "idle"]_vars

\* C18, amended: a ReserveN(nil, n) with n > size > 0 does not block: it is
\* never at a position where it waits, and its branch on the size returns
\* false leaving the counter word unchanged, while with n <= size that
\* branch leads to tryReserve.
C18_OversizedFailsAtOnce ==
    /\ [](\A p \in Procs : OversizedNoDone(p) =>
            proc[p].pc = "rn_start" /\ ENABLED ReserveN(p))
    /\ [][\A p \in Procs :
            /\ proc[p].pc = "rn_start"
            /\ proc[p].done = "nil"
            /\ size > 0
            /\ proc'[p].pc # "rn_start"
            => /\ counter' = counter
               /\ IF proc[p].n > size
                  THEN proc'[p].pc = "idle" /\ proc'[p].ret = "false"
                  ELSE proc'[p].pc = "rn_try"]_vars

\* c, whose script is a ReserveN(nil, n) and the FreeN(n) that remains to be
\* called, has returned false from the ReserveN, n being above the size
C18_Witness ==
    /\ size > 0
    /\ calls.script["c"] # <<>>
    /\ Head(calls.script["c"]).op = "FreeN"
    /\ Head(calls.script["c"]).n > size
    /\ proc["c"].pc = "idle"
    /\ proc["c"].ret = "false"

\* p's call is Reserve(), that is ReserveN(nil, 1)
IsReserve(p) ==
    /\ proc[p].call = "ReserveN"
    /\ proc[p].done = "nil"
    /\ proc[p].n = 1

\* C19: Reserve always commits before returning: the step in which a
\* Reserve() call returns gives true and adds 1 to active, taking 1 out of
\* pending if the call had been enqueued and leaving pending alone if not.
C19_ReserveCommits ==
    [][\A p \in Procs :
        IsReserve(p) /\ proc[p].pc # "idle" /\ proc'[p].pc = "idle" =>
            /\ proc'[p].ret = "true"
            /\ proc'[p].held = proc[p].held + 1
            /\ Active' = Active + 1
            /\ Pending' = IF proc[p].pc \in SlowPcs THEN Pending - 1
                          ELSE Pending]_vars

\* c, whose script is a Reserve() and the Free() that remains to be called,
\* has returned from the Reserve() after having been enqueued
C19_Witness ==
    /\ calls.script["c"] # <<>>
    /\ Head(calls.script["c"]) = FreeNCall(1)
    /\ proc["c"].pc = "idle"
    /\ proc["c"].ret = "true"
    /\ hist["c"].enq = 1

\* p's call of SetSize was made after a size had been set: it is the second
\* SetSize of p, or it finds the block channel of an earlier NewGroup or
\* SetSize
FurtherSetSize(p) ==
    /\ proc[p].call = "SetSize"
    /\ \/ calls.script[p] = <<>>
       \/ blockChan /\ proc[p].pc \in {"ss_load", "ss_check"}

\* C20: SetSize is legal exactly once: once a size has been set through
\* NewGroup or a previous SetSize, every further SetSize call panics with
\* "sema.Group: group already initialized" and leaves the size, the block
\* channel and the counter unchanged.
C20_SetSizeOnce ==
    [][\A p \in Procs : FurtherSetSize(p) /\ proc'[p].pc # proc[p].pc =>
            /\ UNCHANGED <<size, blockChan, counter>>
            /\ proc'[p].pc = "idle" => proc'[p].ret = alreadyInitialized]_vars

\* C20, what SetSize keeps: on a group whose block channel is installed,
\* that is once a size above 0 has been set by NewGroup or SetSize, every
\* further SetSize call panics and leaves the size, the block channel and
\* the counter unchanged: with the concurrent-Reserve panic if the counter
\* is not 0 at its first check, and with "sema.Group: group already
\* initialized" otherwise; NewGroup and SetSize with a size of 0 or less
\* install nothing, and a SetSize after them that finds the counter 0 goes
\* on to setSize.
C20_SetSizeOncePositive ==
    [][\A p \in Procs :
        proc[p].call = "SetSize" /\ proc'[p].pc # proc[p].pc =>
            /\ blockChan /\ proc[p].pc \in {"ss_load", "ss_check"} =>
                 /\ UNCHANGED <<size, blockChan, counter>>
                 /\ proc[p].pc = "ss_load" =>
                      IF counter # 0
                      THEN /\ proc'[p].pc = "idle"
                           /\ proc'[p].ret = concurrentReserve
                      ELSE proc'[p].pc = "ss_check"
                 /\ proc[p].pc = "ss_check" =>
                      /\ proc'[p].pc = "idle"
                      /\ proc'[p].ret = alreadyInitialized
            /\ ~blockChan /\ proc[p].pc = "ss_check" =>
                 proc'[p].pc = IF proc[p].n > 0 THEN "ss_size" ELSE "ss_recheck"]_vars

\* the second SetSize of Main has panicked on a group whose size is above 0
\* and whose counter is 0
C20_Witness ==
    /\ calls.script[Main] = <<>>
    /\ proc[Main].pc = "idle"
    /\ proc[Main].ret = alreadyInitialized
    /\ size > 0
    /\ blockChan
    /\ counter = 0

C22_RacingReserveFaults ==
    \A p \in Procs :
        /\ hist[p].raced
        /\ proc[p].pc = "idle"
        /\ proc[p].ret = "true"
        /\ Finished(Main)
        => proc[Main].ret = concurrentReserve

\* p makes the call that heads its script
Calling(p) ==
    /\ proc[p].pc = "idle"
    /\ calls.script[p] # <<>>
    /\ calls'.script[p] # calls.script[p]

\* C23: ReserveN, TryReserveN and FreeN called with n <= 0 panic before
\* reading or changing any state: the call ends in the step that makes it,
\* with the panic of its method whatever the group and the doneChan, and the
\* counter, the size, the block channel, the wait channel and every other
\* goroutine are as they were, so that no reserver or waiter is woken.
C23_InvalidNPanics ==
    [][\A p \in Procs :
        Calling(p) /\ Head(calls.script[p]).n <= 0
          /\ Head(calls.script[p]).op \in {"ReserveN", "TryReserveN", "FreeN"}
        => /\ proc'[p].pc = "idle"
           /\ proc'[p].ret = IF Head(calls.script[p]).op = "FreeN"
                             THEN invalidFreeN ELSE invalidReserveN
           /\ proc'[p].held = proc[p].held
           /\ UNCHANGED group
           /\ \A q \in Procs \ {p} : proc'[q] = proc[q]]_vars

\* b has made its two calls and the second has panicked, while c is parked
\* in reserveNSlow behind the slot of Main and w is blocked in Wait on a
\* channel that is still open
C23_Witness ==
    /\ calls.script["b"] = <<>>
    /\ proc["b"].pc = "idle"
    /\ proc["b"].ret \in {invalidReserveN, invalidFreeN}
    /\ Parked("c")
    /\ proc["w"].pc = "w_block"
    /\ proc["w"].waitChan.id \notin closed

\* C24: in every reachable state of a sized Group, pending is the sum of the
\* weights of the ReserveN calls that have enqueued and have neither
\* committed nor aborted, and active is the weight held, so that while a
\* ReserveN(n) is blocked the pending count includes n and the active count
\* does not; the enqueue adds n to pending alone, and the commit moves n
\* from pending to active in one step, leaving pending + active unchanged.
C24_PendingIsEnqueued ==
    /\ [](size > 0 => Pending = EnqueuedWeight /\ Active = HeldWeight)
    /\ [][size > 0 => \A p \in Procs :
            /\ proc[p].pc = "rn_try" /\ proc'[p].pc = "slow_select" =>
                 /\ Pending' = Pending + proc[p].n
                 /\ Active' = Active
            /\ proc[p].pc = "sw_cas" /\ proc'[p].pc = "idle" =>
                 /\ proc'[p].ret = "true"
                 /\ Pending' = Pending - proc[p].n
                 /\ Active' = Active + proc[p].n
                 /\ Pending' + Active' = Pending + Active]_vars

\* a ReserveN of the largest weight that had been enqueued has committed,
\* and the weight pending is that of a reserver parked since
C24_Witness ==
    /\ size > 0
    /\ \E p, q \in Procs :
          /\ proc[p].pc = "idle"
          /\ proc[p].ret = "true"
          /\ hist[p].enq = MaxN
          /\ Active = MaxN
          /\ Parked(q)
          /\ Pending = proc[q].n

\* C25: cancellation is eventually observed: once the doneChan of a ReserveN
\* call in progress is receive-ready the call returns, whatever the FreeN
\* calls and the other reservers do, provided every goroutine inside a call
\* keeps being scheduled.
C25_CancelReturns ==
    \A p \in Workers :
        (proc[p].call = "ReserveN" /\ proc[p].done = "closed")
            ~> (proc[p].pc = "idle")

\* b, which had been enqueued, has returned false while Main is inside a
\* FreeN and c is still enqueued
C25_Witness ==
    /\ proc["b"].pc = "idle"
    /\ proc["b"].ret = "false"
    /\ hist["b"].enq > 0
    /\ proc[Main].call = "FreeN"
    /\ proc["c"].pc \in SlowPcs

\* TestAllocCancelDoesntStarve at the instant of the cancellation: on a group
\* of the largest size one slot is held, the ReserveN of the whole size is
\* enqueued with its doneChan ready, and the Reserve() is enqueued behind it
AllocCancelled ==
    /\ size = MaxSize
    /\ Active = 1
    /\ proc["b"].call = "ReserveN"
    /\ proc["b"].n = size
    /\ proc["b"].pc \in SlowPcs \cup {"ab_sub"}
    /\ proc["b"].done = "closed"
    /\ IsReserve("c")
    /\ proc["c"].pc \in SlowPcs

\* C26: when a blocked ReserveN is cancelled, a reserver that is blocked
\* only because pending was not 0 and that now fits is woken and returns:
\* with one slot held, a blocked ReserveN of the whole size and a blocked
\* Reserve(), the cancellation makes the ReserveN return false and the
\* Reserve() return true, whether or not a Free is ever called.
C26_CancelWakesNext ==
    /\ AllocCancelled ~> (proc["b"].pc = "idle" /\ proc["b"].ret = "false")
    /\ AllocCancelled ~> (proc["c"].pc = "idle" /\ proc["c"].ret = "true")

\* both calls have returned, the Reserve() after having been enqueued, and
\* the first goroutine has never called Free
C26_Witness ==
    /\ size = MaxSize
    /\ calls.script[Main] = <<FreeNCall(1)>>
    /\ proc[Main].pc = "idle"
    /\ proc["b"].pc = "idle"
    /\ proc["b"].ret = "false"
    /\ proc["b"].n = 0
    /\ hist["b"].enq = size
    /\ proc["c"].pc = "idle"
    /\ proc["c"].ret = "true"
    /\ hist["c"].enq = 1
    /\ Active = 2

\* C27: FreeN never suspends: every FreeN call returns or panics, provided
\* every goroutine inside a call keeps being scheduled; its notify loop ends
\* when the pending reservers abort, and it waits for no new call.
C27_FreeNReturns ==
    \A p \in Workers : (proc[p].call = "FreeN") ~> (proc[p].pc = "idle")

\* a FreeN whose select found no receiver, the pending reserver being about
\* to abort, is back at the load of the counter, from which that reserver
\* has since taken its weight
C27_Witness ==
    \E p, r \in Workers :
        /\ proc[p].call = "FreeN"
        /\ proc[p].pc = "nf_load"
        /\ counterParts(proc[p].counter).pending > 0
        /\ Pending = 0
        /\ proc[r].call = "ReserveN"
        /\ proc[r].pc \in {"nf_load", "nw_load"}

\* p's FreeN, whose decrement made active negative, ends in this step
BelowZeroEnds(p) ==
    /\ proc[p].call = "FreeN"
    /\ hist[p].below
    /\ proc'[p].pc = "idle"

\* waiter q is blocked on a channel that is open and that no goroutine is
\* about to close
Stranded(q) ==
    /\ proc[q].pc = "w_block"
    /\ proc[q].waitChan.id \notin closed
    /\ \A r \in Procs : proc[r].pc = "nw_close" =>
                            proc[r].waitChan # proc[q].waitChan

\* C28: a FreeN whose decrement makes active negative still performs its
\* reserver notification and its waiter notification before panicking, so
\* that the Wait callers blocked at that time are released: when it panics
\* no waiter is left blocked on an open channel.
C28_BelowZeroReleasesWaiters ==
    [][\A p \in Procs : BelowZeroEnds(p) =>
            /\ proc'[p].ret = negativeCounter
            /\ \A q \in hist[p].waiting : ~Stranded(q)']_vars

\* C28, amended: a FreeN whose decrement makes active negative panics only
\* at its end, never in the step of the decrement: after notifyFree, if the
\* group has a block channel, and after notifyWait(pending, active), which
\* returns at its first test if pending > 0 and otherwise closes the wait
\* channel it finds installed, unless another caller of notifyWait swapped
\* that channel out and closes it; so when the FreeN panics the Wait callers
\* that were blocked at its decrement are released, unless weight was
\* pending in the counter notifyFree returned.
C28_BelowZeroNotifiesFirst ==
    [][\A p \in Procs :
        /\ Calling(p) /\ proc'[p].pc = "idle" => proc'[p].ret # negativeCounter
        /\ BelowZeroEnds(p) =>
             /\ proc'[p].ret = negativeCounter
             /\ proc[p].pc \in {"nf_load", "nf_reload"} => blockChan /\ Pending > 0
             /\ proc[p].pc = "nw_load" => waitChan \in {nilValue, nilChan}
             /\ proc[p].pc = "nw_cas" =>
                  /\ waitChan # proc[p].waitChan
                  /\ \/ proc[p].waitChan.id \in closed
                     \/ \E r \in Procs : /\ proc[r].pc = "nw_close"
                                         /\ proc[r].waitChan = proc[p].waitChan
             /\ proc[p].pc = "nw_close" => proc[p].waitChan.id \in closed'
             /\ proc[p].pc \in {"nf_load", "nf_reload", "nw_load", "nw_cas",
                                "nw_close"}
             /\ (\E q \in hist[p].waiting : Stranded(q)') =>
                  proc[p].pc \in {"nf_load", "nf_reload"}]_vars

\* a FreeN that left active below zero has panicked after closing the wait
\* channel: the waiter blocked on it has not run yet, and nothing is pending
C28_Witness ==
    \E p \in Procs, q \in Waiters :
        /\ proc[p].pc = "idle"
        /\ proc[p].ret = negativeCounter
        /\ hist[p].below
        /\ Active < 0
        /\ Pending = 0
        /\ q \in hist[p].waiting
        /\ proc[q].pc = "w_block"
        /\ proc[q].waitChan.id \in closed
        /\ \A r \in Procs \ {p} : proc[r].call # "FreeN"

\* C29: the wait broadcast is fired only on an observed-zero counter: when
\* notifyWait is about to close a wait channel, the (pending, active) pair
\* it was called with is (0, 0), and the counter word held that value at
\* some instant since the caller's update of the counter.
C29_ClosesOnObservedZero ==
    \A p \in Procs :
        proc[p].pc = "nw_close" =>
            /\ counterParts(proc[p].counter).pending = 0
            /\ proc[p].active = 0
            /\ hist[p].zeroSince

\* C30: every wait channel is closed at most once under any interleaving of
\* FreeN, aborting ReserveN and Wait calls: no close panics on a closed
\* channel, a goroutine about to close holds a channel made by a Wait call
\* (neither nil, the sentinel nilChan nor the shared closedChan, which is
\* never installed) that is still open, and no two goroutines are about to
\* close the same channel.
C30_ClosedAtMostOnce ==
    /\ waitChan.kind \in {"nil", "nilChan", "chan"}
    /\ closed \subseteq 1..nchans
    /\ \A p \in Procs :
        /\ proc[p].ret # "panic: close of closed channel"
        /\ proc[p].pc = "nw_close" =>
             /\ proc[p].waitChan.kind = "chan"
             /\ proc[p].waitChan.id \in 1..nchans
             /\ proc[p].waitChan.id \notin closed
             /\ waitChan # proc[p].waitChan
             /\ \A r \in Procs \ {p} :
                    proc[r].pc = "nw_close" => proc[r].waitChan # proc[p].waitChan

\* an aborting ReserveN has closed the wait channel that a FreeN, having
\* loaded it too, is about to compare and swap
C30_Witness ==
    \E p, r \in Procs :
        /\ proc[p].pc = "idle"
        /\ proc[p].ret = "false"
        /\ proc[r].call = "FreeN"
        /\ proc[r].pc = "nw_cas"
        /\ proc[r].waitChan.id \in closed
        /\ waitChan = nilChan

\* the wait channel made as the i-th is installed, closed, or held by a
\* goroutine that has swapped it out and is about to close it
Accounted(i) ==
    \/ waitChan = Chan(i)
    \/ i \in closed
    \/ \E p \in Procs : proc[p].pc = "nw_close" /\ proc[p].waitChan = Chan(i)

\* C31: g.waitChan only moves nil -> channel, channel -> nilChan and
\* nilChan -> channel: it never returns to nil and a channel is never replaced
\* by another channel; a channel leaves it only through notifyWait's
\* CompareAndSwap, whose winner goes on to close it, and an installed channel
\* is fresh and open; so no channel made by a Wait is dropped unclosed.
C31_WaitCellCycle ==
    /\ [](\A i \in 1..nchans : Accounted(i))
    /\ [][waitChan' # waitChan =>
            \/ /\ waitChan \in {nilValue, nilChan}
               /\ waitChan' = Chan(nchans + 1)
               /\ nchans' = nchans + 1
               /\ waitChan'.id \notin closed'
            \/ /\ waitChan.kind = "chan"
               /\ waitChan' = nilChan
               /\ \E p \in Procs : /\ proc[p].pc = "nw_cas"
                                   /\ proc'[p].pc = "nw_close"
                                   /\ proc'[p].waitChan = waitChan]_vars

\* the second round: both channels made so far have been closed and the
\* sentinel is installed again, the two Wait calls having returned
C31_Witness ==
    /\ nchans = 2
    /\ closed = {1, 2}
    /\ waitChan = nilChan
    /\ \A q \in Waiters : proc[q].ret = "waited"

\* p, woken by a token, finds no room for its weight and goes back to the
\* select of reserveNSlow
Reparks(p) ==
    /\ proc[p].pc = "sw_load"
    /\ diffN(counter, proc[p].size, proc[p].n) < 0
    /\ proc'[p].pc = "slow_select"

\* C32: a parked reserver that receives a wake-up token and cannot commit
\* does not silently swallow the token: when it parks again while another
\* reserver is parked whose weight the group has room for, the step hands the
\* token to a parked reserver, or completes the send of another notifier.
C32_TokenNotSwallowed ==
    [][\A p \in Procs :
        /\ Reparks(p)
        /\ \E r \in Procs \ {p} : Parked(r) /\ Active + proc[r].n <= size
        => \/ \E r \in Procs \ {p} : Parked(r) /\ proc'[r].pc = "sw_load"
           \/ \E q \in Procs \ {p} : /\ proc[q].pc = "nf_send"
                                      /\ proc'[q].pc = "nf_reload"]_vars

\* C33: in reserveNSuccessWait, whenever the room is insufficient
\* (size - active - n < 0) the caller's own weight is still counted in
\* pending and active is not negative, so pending = n or pending + active >
\* size holds and the reserver goes back to the select of reserveNSlow; the
\* send-or-receive select on the block channel is never reached.
C33_HandoffNeverRuns ==
    /\ [](\A p \in Procs :
            /\ proc[p].pc # "sw_handoff"
            /\ proc[p].pc \in SlowPcs => Pending >= proc[p].n /\ Active >= 0)
    /\ [][\A p \in Procs :
            proc[p].pc = "sw_load" /\ proc'[p].pc # "sw_load" =>
                IF diffN(counter, proc[p].size, proc[p].n) >= 0
                THEN proc'[p].pc = "sw_check"
                ELSE /\ \/ Pending = proc[p].n
                        \/ Pending + Active > proc[p].size
                     /\ proc'[p].pc = "slow_select"]_vars

\* a woken reserver has gone back to the select on a counter in which other
\* weight was pending besides its own, that of a reserver still parked
C33_Witness ==
    \E p \in Procs :
        /\ proc[p].pc = "slow_select"
        /\ diffN(proc[p].counter, proc[p].size, proc[p].n) < 0
        /\ counterParts(proc[p].counter).pending > proc[p].n
        /\ \E r \in Procs \ {p} : Parked(r)

\* p completes a send on the block channel in this step
Sends(p) == proc[p].pc = "nf_send" /\ proc'[p].pc = "nf_reload"

\* the positions of a FreeN after its send
AfterSendPcs == {"nf_reload", "nw_load", "nw_cas", "nw_close"}

\* C34: each FreeN call, whatever its weight, completes at most one send on
\* the block channel and so wakes at most one parked reserver: a send takes
\* exactly one parked reserver into reserveNSuccessWait, and after it the
\* call only goes on to notifyWait and its end; it is in notifyFree only on
\* a group with a block channel, and at the select only after loading a
\* counter with pending > 0.
C34_AtMostOneSend ==
    /\ [](\A p \in Procs :
            /\ proc[p].pc \in {"nf_load", "nf_send", "nf_reload"} => blockChan
            /\ proc[p].pc = "nf_send" =>
                    counterParts(proc[p].counter).pending > 0)
    /\ [][\A p \in Procs : proc[p].call = "FreeN" =>
            /\ Sends(p) =>
                 \E r \in Procs \ {p} :
                    /\ Parked(r)
                    /\ proc'[r].pc = "sw_load"
                    /\ \A q \in Procs \ {p, r} : proc'[q] = proc[q]
            /\ ~Sends(p) =>
                 \A r \in Procs \ {p} :
                    Parked(r) /\ proc'[r].pc = "sw_load" =>
                        \E q \in Procs \ {p} : Sends(q)
            /\ proc[p].pc \in AfterSendPcs =>
                 proc'[p].pc \in AfterSendPcs \cup {"idle"}
            /\ proc[p].pc \in {"nf_load", "nf_send"} /\ proc'[p].pc # proc[p].pc
                 /\ ~Sends(p) =>
                 proc'[p].pc \in {"nf_load", "nf_send", "nw_load", "idle"}]_vars

\* a FreeN of weight 2 has sent its one token, to a reserver of weight 1
C34_Witness ==
    \E p, r \in Procs :
        /\ proc[p].call = "FreeN"
        /\ proc[p].n = 2
        /\ proc[p].pc = "nf_reload"
        /\ proc[r].pc = "sw_load"
        /\ proc[r].n = 1
        /\ Active = 0

\* p's ReserveN takes the step of tryReserve whose counterUpdate succeeds
FastPath(p) == proc[p].pc = "rn_try" /\ proc'[p].pc # "rn_try"

\* C35: no barging: on a sized group a ReserveN(n) with n <= size commits on
\* the fast path exactly when its counterUpdate is made on a counter with
\* pending = 0 and active + n <= size, adding n to active and returning
\* true; otherwise, and so whenever pending > 0 even if active + n <= size,
\* it adds n to pending, leaves active unchanged and goes on to park.
C35_NoBarging ==
    [][\A p \in Procs : FastPath(p) =>
        /\ size > 0 /\ proc[p].n <= size
        /\ IF Pending = 0 /\ Active + proc[p].n <= size
           THEN /\ Pending' = 0
                /\ Active' = Active + proc[p].n
                /\ proc'[p].pc = "idle"
                /\ proc'[p].ret = "true"
                /\ proc'[p].held = proc[p].held + proc[p].n
           ELSE /\ Pending' = Pending + proc[p].n
                /\ Active' = Active
                /\ proc'[p].pc = "slow_select"
                /\ proc'[p].held = proc[p].held]_vars

\* a ReserveN is parked with its weight in pending although the group has
\* room for it: it arrived while another reserver was pending, which has
\* been woken and is yet to commit
C35_Witness ==
    \E p, r \in Procs :
        /\ p # r
        /\ proc[p].pc = "slow_parked"
        /\ hist[p].enq = proc[p].n
        /\ proc[r].pc = "sw_load"
        /\ Pending = proc[p].n + proc[r].n
        /\ Active + proc[p].n + proc[r].n <= size

\* C36: a Wait called while both counts are 0 returns at once, on the shared
\* closed channel, and leaves g.waitChan as it is: the call's first load
\* changes nothing, and the load of a counter of 0 that follows ends the
\* call without installing a channel, whatever g.waitChan holds.
C36_WaitAtZero ==
    [][\A q \in Procs :
        /\ proc[q].pc = "idle" /\ proc'[q].pc = "w_loadctr" =>
              /\ UNCHANGED group
              /\ proc'[q].waitChan = waitChan
        /\ proc[q].pc = "w_loadctr" /\ proc'[q].pc # "w_loadctr" /\ counter = 0 =>
              /\ proc'[q].pc = "idle"
              /\ proc'[q].ret = "waited"
              /\ UNCHANGED group]_vars

\* after a completed round in which a wait channel was made and closed, w's
\* second Wait began with the counter at 0 and has returned: the sentinel is
\* still installed and no second channel was made
C36_Witness ==
    /\ Len(calls.script[Main]) = 2
    /\ proc[Main].pc = "idle"
    /\ ~Started("b")
    /\ calls.script["w"] = <<>>
    /\ proc["w"].pc = "idle"
    /\ proc["w"].ret = "waited"
    /\ hist["w"].zeroSince
    /\ waitChan = nilChan
    /\ nchans = 1
    /\ closed = {1}

\* p's counterUpdate makes its CompareAndSwap in this step
Swaps(p) == proc[p].pc = "cu_cas" /\ proc'[p].pc = "idle"

\* the active half is about to leave the range of a signed half: above its
\* largest value (1), below its smallest (-1), or not at all (0)
Wraps(p) ==
    LET sum == counterParts(proc[p].counter).active + proc[p].activeDelta
    IN IF sum > Half \div 2 - 1 THEN 1
       ELSE IF sum < 0 - Half \div 2 THEN 0 - 1
       ELSE 0

\* C37: counterUpdate keeps pending the count of enqueued weights: for every
\* old word and every pair of deltas, the new pending half is old pending +
\* pendingDelta (modulo the width) and the new active half is old active +
\* activeDelta in signed arithmetic, also when the active half wraps or goes
\* from 0 to a negative value; an update whose CompareAndSwap succeeds
\* replaces the word, and one whose CompareAndSwap fails changes nothing.
C37_HalvesIndependent ==
    [][\A p \in Procs : Swaps(p) =>
        LET old == counterParts(proc[p].counter)
        IN IF counter = proc[p].counter
           THEN /\ proc'[p].ret = "true"
                /\ Pending' = (old.pending + proc[p].pendingDelta) % Half
                /\ Active' = ToSigned(old.active + proc[p].activeDelta)
           ELSE /\ proc'[p].ret = "false"
                /\ counter' = counter]_vars

\* C37, amended: the new active half is old active + activeDelta in signed
\* arithmetic, and the new pending half is old pending + pendingDelta
\* (modulo the width) plus 1 when a positive activeDelta takes the active
\* half above its largest value and minus 1 when a negative activeDelta takes
\* it below its smallest one; going from 0 to a negative value leaves
\* pending to pendingDelta alone; a lost CompareAndSwap changes nothing.
C37_CarryIntoPending ==
    [][\A p \in Procs : Swaps(p) =>
        LET old == counterParts(proc[p].counter)
        IN IF counter = proc[p].counter
           THEN /\ proc'[p].ret = "true"
                /\ Pending' =
                     (old.pending + proc[p].pendingDelta + Wraps(p)) % Half
                /\ Active' = ToSigned(old.active + proc[p].activeDelta)
                /\ counter' = proc'[p].counter
           ELSE /\ proc'[p].ret = "false"
                /\ counter' = counter]_vars

\* an update that took the active half above its largest value has been
\* committed: active is negative and pending is one more than the deltas
\* make it, and the other goroutine's update lost its CompareAndSwap
C37_Witness ==
    \E p, q \in Pool :
        /\ proc[p].ret = "true"
        /\ proc[p].activeDelta > 0
        /\ counterParts(proc[p].counter).active < 0
        /\ proc[q].ret = "false"
        /\ counter = proc[p].counter

\* p's FreeN makes its decrement in this step
Decrements(p) == proc[p].pc = "idle" /\ proc'[p].held < proc[p].held

\* C38: a FreeN that panics with the negative-counter tag has committed its
\* decrement and does not roll it back: no step of the call after the
\* decrement changes the counter, the panic included; while active is below
\* zero it rises only by a reservation that commits; and every FreeN that
\* makes its decrement while active is below zero leaves it lower still and
\* panics too.
C38_DecrementStands ==
    [][\A p \in Procs :
        /\ Decrements(p) /\ Active < 0 =>
              /\ Active' = Active - proc'[p].n
              /\ hist'[p].below
        /\ proc[p].call = "FreeN" /\ hist[p].below
           /\ proc'[p].pc # proc[p].pc => counter' = counter
        /\ BelowZeroEnds(p) => proc'[p].ret = negativeCounter
        /\ Active < 0 /\ Active' > Active =>
              \E q \in Procs : proc'[q].held > proc[q].held]_vars

\* two FreeN calls have panicked one after the other and every call has
\* returned: active is still below zero by the weight of both
C38_Witness ==
    \E p, q \in Procs :
        /\ p # q
        /\ proc[p].ret = negativeCounter /\ hist[p].below
        /\ proc[q].ret = negativeCounter /\ hist[q].below
        /\ hist[q].waiting = {} /\ hist[p].waiting = {}
        /\ Quiescent
        /\ Active <= 0 - 2

====
